---- MODULE Spec2Model ----
(***************************************************************************)
(* Model of the Lightspeed token service: LightspeedTokenService (token    *)
(* storage, encryption, refresh, login) and TokenScheduler (the periodic   *)
(* refresh and health-check tasks), both in src/services/token-scheduler.ts*)
(*                                                                         *)
(* Every async method is cut at its awaits: one action is the code that    *)
(* runs from one await's completion up to the next await.  Times are       *)
(* milliseconds, as Date.getTime() gives them.  Strings are sequences of   *)
(* bytes.  A missing value (null, undefined, no row) is the empty sequence *)
(* None; a present one is the one-element sequence Some(x).                *)
(***************************************************************************)
EXTENDS Integers, Sequences, FiniteSets, TLC

VARIABLES
    store,                    \* rows of table lightspeed_tokens
    nextId,                   \* the SERIAL sequence of column id
    ivCtr,                    \* how many initialization vectors were drawn
    now,                      \* the clock, ms
    due,                      \* cron: which task has a tick due at this instant
    env,                      \* process.env: client credentials, encryption key
    issued,                   \* provider: number of token pairs issued so far
    provValid,                \* provider: pair numbers whose refresh token it accepts
    refreshTask,              \* TokenScheduler.refreshTask !== null
    healthCheckTask,          \* TokenScheduler.healthCheckTask !== null
    lastTokenCheckHadTokens,  \* TokenScheduler.lastTokenCheckHadTokens
    proc,                     \* the calls in flight: position and locals of each
    last,                     \* the call that returned most recently, as it ended
    log,                      \* what the last step wrote to the console
    prevHad,                  \* history: did the latest refresh-tick lookup find a row
    legacy,                   \* history: did the table hold a row at the start
    timers                    \* cron: how many scheduled tasks exist, per scheduler

vars == <<store, nextId, ivCtr, now, due, env, issued, provValid, refreshTask,
          healthCheckTask, lastTokenCheckHadTokens, proc, last, log, prevHad, legacy,
          timers>>

---------------------------------------------------------------------------
(* Bounds of the model *)

MaxIssued == 2        \* token pairs the provider issues in one behaviour
MaxWrites == 2        \* successful store writes (create/update) in one behaviour
MaxAdvance == 2       \* clock steps in one behaviour
MaxInFlight == 2      \* refresh ticks that can be in flight together

---------------------------------------------------------------------------
(* Values *)

None == <<>>
Some(x) == <<x>>

NoDate == -1          \* expires_at IS NULL
InvalidDate == -2     \* new Date(NaN)
NoNumber == -1        \* a numeric field or argument that is undefined

MINUTE == 60 * 1000
REFRESH_BUFFER_MINUTES == 10
CRON_REFRESH_MINUTES == 5
CRON_HEALTH_MINUTES == 60
DEFAULT_EXPIRES_IN == 3600
DEFAULT_MANUAL_MINUTES == 60

TimeSteps == {CRON_REFRESH_MINUTES * MINUTE}
\* Lifetimes (expires_in, seconds) the provider may answer with.
Lifetimes == {300, 900}

---------------------------------------------------------------------------
(* Strings and tokens *)

TokenLen == 22
AT == 1
RT == 2

\* The access (kind AT) or refresh (kind RT) token of pair n, TokenLen bytes long.
Token(kind, n) == [i \in 1..TokenLen |-> IF i = 1 THEN kind ELSE IF i = 2 THEN n ELSE 0]

\* String.prototype.substring(0, n)
Substring(s, n) == SubSeq(s, 1, IF Len(s) < n THEN Len(s) ELSE n)

---------------------------------------------------------------------------
(* encrypt / decrypt: aes-256-cbc with a random IV, "ivHex:payloadHex".    *)
(* The block cipher is abstracted to a keyed byte substitution chained as  *)
(* CBC chains blocks, with one byte of padding that decryption verifies.   *)

IV_BYTES == 16
KEY_BYTES == 32
BYTE == 256
SEP == 256            \* ":" - not a hex digit, so never part of iv or payload
PAD == 1

GoodKey == [i \in 1..KEY_BYTES |-> 7]
ShortKey == [i \in 1..16 |-> 7]
NoKey == <<>>

RECURSIVE SumBytes(_)
SumBytes(s) == IF s = <<>> THEN 0 ELSE (s[1] + SumBytes(Tail(s))) % BYTE

RECURSIVE CbcEncrypt(_, _, _)
CbcEncrypt(k, prev, text) ==
    IF text = <<>> THEN <<>>
    ELSE LET c == (text[1] + prev + k) % BYTE
         IN  <<c>> \o CbcEncrypt(k, c, Tail(text))

RECURSIVE CbcDecrypt(_, _, _)
CbcDecrypt(k, prev, body) ==
    IF body = <<>> THEN <<>>
    ELSE <<(body[1] + 2 * BYTE - prev - k) % BYTE>> \o CbcDecrypt(k, body[1], Tail(body))

\* Variant: the same vector for every call
RandomBytesFixed(n) == [i \in 1..IV_BYTES |-> 0]

\* crypto.randomBytes(16): the n-th vector drawn
RandomBytes(n) == [i \in 1..IV_BYTES |-> IF i = 1 THEN n % BYTE ELSE 0]

Threw == [threw |-> TRUE, val |-> <<>>]
Returned(v) == [threw |-> FALSE, val |-> v]

encrypt(text, iv, key) ==
    IF key = NoKey THEN Threw
    ELSE IF Len(key) # KEY_BYTES THEN Threw
    ELSE Returned(iv \o <<SEP>> \o
                  CbcEncrypt(SumBytes(key), SumBytes(iv), text \o <<PAD>>))

\* encryptedText.split(":"): the parts before the first ":" and between the
\* first and the second ":" (None when there is no ":").
SepPositions(s) == {i \in 1..Len(s) : s[i] = SEP}
FirstSep(s) == CHOOSE i \in SepPositions(s) : \A j \in SepPositions(s) : i <= j
SplitHead(s) == IF SepPositions(s) = {} THEN s ELSE SubSeq(s, 1, FirstSep(s) - 1)
SplitSecond(s) ==
    IF SepPositions(s) = {} THEN None
    ELSE LET rest == SubSeq(s, FirstSep(s) + 1, Len(s))
         IN  Some(SplitHead(rest))

\* Variant: the cipher set up with a zero vector, not the one in the text
decryptWithZeroIv(encryptedText, key) ==
    IF key = NoKey THEN Threw
    ELSE LET ivHex == SplitHead(encryptedText)
             encrypted == SplitSecond(encryptedText)
         IN  IF Len(key) # KEY_BYTES \/ Len(ivHex) # IV_BYTES THEN Threw
             ELSE IF encrypted = None THEN Threw
             ELSE LET plain == CbcDecrypt(SumBytes(key), 0, encrypted[1])
                  IN  IF plain = <<>> \/ plain[Len(plain)] # PAD THEN Threw
                      ELSE Returned(SubSeq(plain, 1, Len(plain) - 1))

decrypt(encryptedText, key) ==
    IF key = NoKey THEN Threw
    ELSE LET ivHex == SplitHead(encryptedText)
             encrypted == SplitSecond(encryptedText)
         IN  IF Len(key) # KEY_BYTES \/ Len(ivHex) # IV_BYTES THEN Threw
             ELSE IF encrypted = None THEN Threw
             ELSE LET plain == CbcDecrypt(SumBytes(key), SumBytes(ivHex), encrypted[1])
                  IN  IF plain = <<>> \/ plain[Len(plain)] # PAD THEN Threw
                      ELSE Returned(SubSeq(plain, 1, Len(plain) - 1))

---------------------------------------------------------------------------
(* The table lightspeed_tokens and the Prisma calls made on it *)

Row(id, a, r, e, u) ==
    [id |-> id, accessToken |-> a, refreshToken |-> r, expiresAt |-> e, updatedAt |-> u]

\* db.lightspeedTokens.findFirst() with no orderBy: any row, None when there is none
findFirst(st) == IF st = {} THEN {None} ELSE {Some(r) : r \in st}

\* getLatestTokens(): what the read may resolve to
getLatestTokens(st) == findFirst(st)

\* Variant: expiresIn taken as milliseconds
ExpiryDateMillis(t, expiresIn) ==
    IF expiresIn = NoNumber THEN InvalidDate ELSE t + expiresIn

\* new Date(); setSeconds(getSeconds() + expiresIn)
ExpiryDate(t, expiresIn) ==
    IF expiresIn = NoNumber THEN InvalidDate ELSE t + expiresIn * 1000

\* Variant: the buffer's edge itself not counted as inside the buffer
needsRefreshStrict(tokens, t) ==
    IF tokens.expiresAt = NoDate THEN TRUE
    ELSE LET bufferTime == tokens.expiresAt - REFRESH_BUFFER_MINUTES * 60 * 1000
         IN  t > bufferTime

needsRefresh(tokens, t) ==
    IF tokens.expiresAt = NoDate THEN TRUE
    ELSE LET bufferTime == tokens.expiresAt - REFRESH_BUFFER_MINUTES * 60 * 1000
         IN  t >= bufferTime

\* The result of a store write: did it throw, the row written, the table after it.
WriteFailed(st, nid, ivn) ==
    [threw |-> TRUE, row |-> None, store |-> st, nextId |-> nid, ivCtr |-> ivn]

\* Variant: the row takes the place of the rows there are
insertTokensReplacing(accessToken, refreshToken, expiresIn, st, nid, ivn, t, key, dbOk) ==
    IF accessToken = None \/ refreshToken = None THEN WriteFailed(st, nid, ivn)
    ELSE LET expiresAt == ExpiryDate(t, expiresIn)
             a == encrypt(accessToken[1], RandomBytes(ivn), key)
             r == encrypt(refreshToken[1], RandomBytes(ivn + 1), key)
             row == Row(nid, a.val, r.val, expiresAt, t)
         IN  IF a.threw \/ r.threw \/ ~dbOk \/ expiresAt = InvalidDate
             THEN WriteFailed(st, nid, ivn)
             ELSE [threw |-> FALSE, row |-> Some(row), store |-> {row},
                   nextId |-> nid + 1, ivCtr |-> ivn + 2]

\* insertTokens: accessToken/refreshToken are None when the caller passed undefined
\* (substring of undefined throws); create rejects an invalid Date.
insertTokens(accessToken, refreshToken, expiresIn, st, nid, ivn, t, key, dbOk) ==
    IF accessToken = None \/ refreshToken = None THEN WriteFailed(st, nid, ivn)
    ELSE LET expiresAt == ExpiryDate(t, expiresIn)
             a == encrypt(accessToken[1], RandomBytes(ivn), key)
             r == encrypt(refreshToken[1], RandomBytes(ivn + 1), key)
             row == Row(nid, a.val, r.val, expiresAt, t)
         IN  IF a.threw \/ r.threw \/ ~dbOk \/ expiresAt = InvalidDate
             THEN WriteFailed(st, nid, ivn)
             ELSE [threw |-> FALSE, row |-> Some(row), store |-> st \cup {row},
                   nextId |-> nid + 1, ivCtr |-> ivn + 2]

\* Variant: the refresh token written as it was given
updateTokensPlainRefresh(id, accessToken, refreshToken, expiresIn, st, nid, ivn, t, key, dbOk) ==
    IF accessToken = None \/ refreshToken = None THEN WriteFailed(st, nid, ivn)
    ELSE LET expiresAt == ExpiryDate(t, expiresIn)
             a == encrypt(accessToken[1], RandomBytes(ivn), key)
             old == {x \in st : x.id = id}
             row == Row(id, a.val, refreshToken[1], expiresAt, t)
         IN  IF a.threw \/ ~dbOk \/ expiresAt = InvalidDate \/ old = {}
             THEN WriteFailed(st, nid, ivn)
             ELSE [threw |-> FALSE, row |-> Some(row), store |-> (st \ old) \cup {row},
                   nextId |-> nid, ivCtr |-> ivn + 2]

\* updateTokens: update({where: {id}}) rejects when no row has that id
updateTokens(id, accessToken, refreshToken, expiresIn, st, nid, ivn, t, key, dbOk) ==
    IF accessToken = None \/ refreshToken = None THEN WriteFailed(st, nid, ivn)
    ELSE LET expiresAt == ExpiryDate(t, expiresIn)
             a == encrypt(accessToken[1], RandomBytes(ivn), key)
             r == encrypt(refreshToken[1], RandomBytes(ivn + 1), key)
             old == {x \in st : x.id = id}
             row == Row(id, a.val, r.val, expiresAt, t)
         IN  IF a.threw \/ r.threw \/ ~dbOk \/ expiresAt = InvalidDate \/ old = {}
             THEN WriteFailed(st, nid, ivn)
             ELSE [threw |-> FALSE, row |-> Some(row), store |-> (st \ old) \cup {row},
                   nextId |-> nid, ivCtr |-> ivn + 2]

\* Variant: only one row is deleted
clearTokensOne(st) == IF st = {} THEN {} ELSE st \ {CHOOSE r \in st : TRUE}

\* clearTokens: deleteMany({})
clearTokens(st) == {}

\* Variant: the minutes left not cut at zero
getTokenStatusSigned(tokens, t) ==
    LET expiresAt == tokens.expiresAt
        isValid == IF expiresAt # NoDate THEN t < expiresAt ELSE FALSE
        floorMin == (expiresAt - t) \div (1000 * 60)
        expiresIn == IF expiresAt # NoDate THEN floorMin ELSE 0
    IN  [isValid |-> isValid, expiresAt |-> expiresAt, expiresIn |-> expiresIn,
         needsRefresh |-> needsRefresh(tokens, t), lastUpdated |-> tokens.updatedAt]

\* getTokenStatus on a row found at time t
getTokenStatus(tokens, t) ==
    LET expiresAt == tokens.expiresAt
        isValid == IF expiresAt # NoDate THEN t < expiresAt ELSE FALSE
        floorMin == (expiresAt - t) \div (1000 * 60)
        expiresIn == IF expiresAt # NoDate THEN (IF floorMin > 0 THEN floorMin ELSE 0) ELSE 0
    IN  [isValid |-> isValid, expiresAt |-> expiresAt, expiresIn |-> expiresIn,
         needsRefresh |-> needsRefresh(tokens, t), lastUpdated |-> tokens.updatedAt]

\* Variant: a row without expiry counts as no row
StatusOfRowsWithExpiry(latestTokens, t) ==
    IF latestTokens = None THEN None
    ELSE IF latestTokens[1].expiresAt = NoDate THEN None
    ELSE Some(getTokenStatus(latestTokens[1], t))

\* getTokenStatus(), lines 492-515, getLatestTokens having resolved to
\* latestTokens: null without a row
StatusOf(latestTokens, t) ==
    IF latestTokens = None THEN None ELSE Some(getTokenStatus(latestTokens[1], t))

---------------------------------------------------------------------------
(* The provider's token endpoint, as requestTokenRefresh and               *)
(* exchangeAuthCodeForTokens see it                                        *)

Data(a, r, e) == [access_token |-> a, refresh_token |-> r, expires_in |-> e]

\* JavaScript truthiness of a string field that may be undefined
Truthy(field) == field # None /\ field[1] # <<>>

\* The pair numbers whose refresh token is the string sent
Accepted(sent, valid) == {n \in valid : sent = Token(RT, n)}

\* What one POST with grant_type refresh_token may come back with:
\* [outcome, data, issued, valid], for the provider's state (n issued, valid).
\* A transport error and a non-2xx status carry no data.  A 2xx answer issues
\* pair n+1 with a lifetime or without expires_in, either rotating the refresh
\* token or repeating the one sent; a 2xx answer may also carry no tokens.
RefreshAnswers(sent, n, valid) ==
    {[outcome |-> o, data |-> None, issued |-> n, valid |-> valid] :
        o \in {"network", "status"}}
    \cup {[outcome |-> "ok", data |-> Some(Data(None, None, NoNumber)),
           issued |-> n, valid |-> valid]}
    \cup {[outcome |-> "ok",
           data |-> Some(Data(Some(Token(AT, n + 1)),
                              Some(Token(RT, IF rot THEN n + 1 ELSE old)), e)),
           issued |-> n + 1,
           valid |-> IF rot THEN (valid \ {old}) \cup {n + 1} ELSE valid] :
        old \in IF n < MaxIssued THEN Accepted(sent, valid) ELSE {},
        rot \in BOOLEAN, e \in Lifetimes \cup {NoNumber}}

\* requestTokenRefresh after its fetch resolved: null unless the status was 2xx,
\* and the parsed body as it is otherwise (lines 666-699)
requestTokenRefresh(answer) ==
    IF answer.outcome # "ok" THEN None ELSE answer.data

\* What one POST with grant_type authorization_code may come back with
ExchangeAnswers(n) ==
    {[outcome |-> o, data |-> None, issued |-> n, valid |-> {}] :
        o \in {"network", "status"}}
    \cup {[outcome |-> "ok", data |-> Some(Data(None, None, NoNumber)),
           issued |-> n, valid |-> {}]}
    \cup {[outcome |-> "ok",
           data |-> Some(Data(Some(Token(AT, n + 1)), Some(Token(RT, n + 1)), e)),
           issued |-> n + 1, valid |-> {n + 1}] :
        e \in IF n < MaxIssued THEN Lifetimes \cup {NoNumber} ELSE {}}

\* exchangeAuthCodeForTokens after its fetch resolved (lines 605-627)
exchangeAuthCodeForTokens(answer) ==
    IF answer.outcome # "ok" THEN None
    ELSE LET data == answer.data[1]
         IN  IF Truthy(data.access_token) /\ Truthy(data.refresh_token)
             THEN Some(Data(data.access_token, data.refresh_token,
                            IF data.expires_in = NoNumber \/ data.expires_in = 0
                            THEN DEFAULT_EXPIRES_IN ELSE data.expires_in))
             ELSE None

---------------------------------------------------------------------------
(* Calls in flight.  Slot 0 is a caller of the service (the CLI, or code   *)
(* asking for a token); slots 1..MaxInFlight are executions of             *)
(* checkAndRefreshTokens.  Besides the locals of the code (sent, body: the  *)
(* JSON the provider answered with, resp: what the exchange function made  *)
(* of it, latest, at: when the data of the pending write was computed), a  *)
(* call                                                                    *)
(* records what it has done so far: the row its first lookup returned      *)
(* (seen) and when (t0), the provider's outcome, the provider calls and    *)
(* store writes it made, whether it caught an exception, whether a store   *)
(* operation of its own failed, and the token strings it has written to    *)
(* the console (printed).                                                  *)

Client == 0
Ticks == 1..MaxInFlight
Procs == {Client} \cup Ticks

NoRet == [kind |-> "pending", tok |-> <<>>, row |-> None, status |-> None, at |-> 0]
Ret(kind) == [kind |-> kind, tok |-> <<>>, row |-> None, status |-> None, at |-> 0]
RetToken(tok, row, t) ==
    [kind |-> "value", tok |-> tok, row |-> Some(row), status |-> None, at |-> t]

Idle ==
    [op |-> "none", pc |-> "idle", sent |-> None, body |-> None, resp |-> None,
     latest |-> None,
     ret |-> NoRet, outcome |-> "none", calls |-> 0, writes |-> 0,
     seen |-> None, t0 |-> 0, caught |-> FALSE, dbFailed |-> FALSE, at |-> 0,
     count |-> 0, printed |-> {}]

Call(op) == [Idle EXCEPT !.op = op, !.pc = "running"]
Finish(pr, ret) == [pr EXCEPT !.pc = "done", !.ret = ret]

Free(p) == proc[p].pc = "idle"
InFlight(p) == ~Free(p)

\* Call p goes on as `next`; when that is its end, it leaves its slot and is
\* kept as the call that returned last.
Settle(p, next) ==
    IF next.pc = "done"
    THEN proc' = [proc EXCEPT ![p] = Idle] /\ last' = next
    ELSE proc' = [proc EXCEPT ![p] = next] /\ last' = last

\* The call writes the strings of `lines` to the console
Prints(pr, lines) == [pr EXCEPT !.printed = pr.printed \cup lines]

\* What insertTokens and updateTokens write of the tokens they are given:
\* the first 20 characters of each (lines 361-368, 413-420; substring throws
\* on undefined before anything of a token is written), and both tokens
\* whole when the encryption or the write has thrown (lines 394-395, 441-442)
TokenLog(accessToken, refreshToken, threw) ==
    IF accessToken = None \/ refreshToken = None THEN {}
    ELSE {Substring(accessToken[1], 20), Substring(refreshToken[1], 20)}
         \cup (IF threw THEN {accessToken[1], refreshToken[1]} ELSE {})

\* What requestTokenRefresh writes once its fetch has settled: the refresh
\* token it sent, whole, after a non-2xx status (line 669) and after a
\* rejected fetch (lines 696-699); the first 20 characters of the new tokens
\* after a 2xx answer that holds both (lines 679-686)
ResponseLog(sent, answer) ==
    IF answer.outcome # "ok" THEN {sent}
    ELSE IF Truthy(answer.data[1].access_token) /\ Truthy(answer.data[1].refresh_token)
    THEN {Substring(answer.data[1].access_token[1], 20),
          Substring(answer.data[1].refresh_token[1], 20)}
    ELSE {}

\* process.env.LIGHTSPEED_CLIENT_ID && process.env.LIGHTSPEED_CLIENT_SECRET
HasClientCredentials(e) == e.creds

---------------------------------------------------------------------------
(* refreshTokens, cut at its awaits.  Each operator gives the caller's     *)
(* record after the step; the caller's own continuation is AfterRefresh.   *)

\* The caller once refreshTokens has returned `refreshed` (a row or None):
\* checkAndRefreshTokens lines 122-134, getValidAccessToken lines 340-345,
\* cliRefresh lines 791-803; a caller from outside the class gets `refreshed`
\* itself.
AfterRefresh(pr, refreshed, key, t) ==
    IF pr.op = "tick" THEN
        IF refreshed # None THEN [pr EXCEPT !.pc = "report"] ELSE Finish(pr, Ret("void"))
    ELSE IF pr.op = "getValidAccessToken" THEN
        IF refreshed # None
        THEN LET d == decrypt(refreshed[1].accessToken, key)
             IN  IF d.threw THEN Finish(pr, Ret("throw"))
                 ELSE Finish(pr, RetToken(d.val, refreshed[1], t))
        ELSE Finish(pr, Ret("null"))
    ELSE IF pr.op = "refreshTokens" THEN
        IF refreshed # None THEN Finish(pr, [Ret("row") EXCEPT !.row = refreshed])
        ELSE Finish(pr, Ret("null"))
    ELSE
        IF refreshed # None THEN [pr EXCEPT !.pc = "report"] ELSE Finish(pr, Ret("failure"))

LogAfterRefresh(pr, refreshed) ==
    IF pr.op = "tick"
    THEN (IF refreshed # None THEN {"refreshed"} ELSE {"refresh_failed"})
    ELSE IF pr.op = "getValidAccessToken" /\ refreshed = None
    THEN {"failed_to_refresh"} ELSE {}

\* Variant: the new tokens are stored before the provider has been asked
BeginRefreshStoringFirst(pr, refreshToken, e, t) ==
    [pr EXCEPT !.pc = "latest", !.sent = Some(refreshToken),
               !.resp = Some(Data(Some(refreshToken), Some(refreshToken),
                                  DEFAULT_EXPIRES_IN))]

\* refreshTokens(refreshToken) up to its fetch: requestTokenRefresh throws when
\* the client credentials are missing (line 640), which refreshTokens catches
\* (line 482) and turns into null.
BeginRefresh(pr, refreshToken, e, t) ==
    IF ~HasClientCredentials(e) THEN AfterRefresh(pr, None, e.key, t)
    ELSE [Prints(pr, {Substring(refreshToken, 20)})
             EXCEPT !.pc = "fetch", !.sent = Some(refreshToken)]

\* Variant: a failed exchange falls back on storing the token that was sent
OnResponseKeepingOld(pr, answer, e, t) ==
    LET response == requestTokenRefresh(answer)
        got == [pr EXCEPT !.body = answer.data, !.resp = response,
                          !.outcome = answer.outcome, !.calls = pr.calls + 1]
    IN  IF response = None
        THEN [got EXCEPT !.pc = "latest",
                         !.resp = Some(Data(pr.sent, pr.sent, DEFAULT_EXPIRES_IN))]
        ELSE [got EXCEPT !.pc = "latest"]

\* Lines 454-458: the answer has arrived.
OnResponse(pr, answer, e, t) ==
    LET response == requestTokenRefresh(answer)
        got == [Prints(pr, ResponseLog(pr.sent[1], answer))
                   EXCEPT !.body = answer.data, !.resp = response,
                          !.outcome = answer.outcome, !.calls = pr.calls + 1]
    IN  IF response = None THEN AfterRefresh(got, None, e.key, t)
        ELSE [got EXCEPT !.pc = "latest"]

\* Line 461: getLatestTokens resolved to `latestTokens`, or rejected (~dbOk).
OnLatest(pr, latestTokens, dbOk, e, t) ==
    IF ~dbOk THEN AfterRefresh([pr EXCEPT !.dbFailed = TRUE], None, e.key, t)
    ELSE [pr EXCEPT !.pc = "write",
                    !.latest = IF latestTokens = None THEN None ELSE Some(latestTokens[1].id)]

\* Lines 463-477: insert when no row was found, update the row found otherwise.
WriteResult(pr, st, nid, ivn, t, key, dbOk) ==
    LET response == pr.resp[1]
    IN  IF pr.latest = None
        THEN insertTokens(response.access_token, response.refresh_token,
                          response.expires_in, st, nid, ivn, t, key, dbOk)
        ELSE updateTokens(pr.latest[1], response.access_token, response.refresh_token,
                          response.expires_in, st, nid, ivn, t, key, dbOk)

\* Lines 465-481: the write resolved: the insert's row is returned; after an
\* update the row is read again.
OnWritten(pr, w, dbOk, e, t) ==
    LET did == [Prints(pr, TokenLog(pr.resp[1].access_token, pr.resp[1].refresh_token,
                                    w.threw))
                   EXCEPT !.writes = IF w.threw THEN pr.writes ELSE pr.writes + 1,
                          !.dbFailed = pr.dbFailed \/ ~dbOk]
    IN  IF w.threw THEN AfterRefresh(did, None, e.key, t)
        ELSE IF pr.latest = None THEN AfterRefresh(did, w.row, e.key, t)
        ELSE [did EXCEPT !.pc = "reread"]

\* Line 480: the second getLatestTokens resolved.
OnReread(pr, latestTokens, dbOk, e, t) ==
    IF ~dbOk THEN AfterRefresh([pr EXCEPT !.dbFailed = TRUE], None, e.key, t)
    ELSE AfterRefresh(pr, latestTokens, e.key, t)

---------------------------------------------------------------------------
(* TokenScheduler *)

\* Variant: the "removed" notice does not clear the flag
TransitionNoticeKeepingFlag(hasTokens, flag) ==
    IF ~hasTokens
    THEN (IF flag THEN [log |-> {"tokens_removed"}, flag |-> flag]
                  ELSE [log |-> {}, flag |-> flag])
    ELSE (IF ~flag THEN [log |-> {"tokens_detected"}, flag |-> TRUE]
                   ELSE [log |-> {}, flag |-> flag])

\* Variant: the "detected" notice is written whenever a row is found
TransitionNoticeEveryTime(hasTokens, flag) ==
    IF ~hasTokens
    THEN (IF flag THEN [log |-> {"tokens_removed"}, flag |-> FALSE]
                  ELSE [log |-> {}, flag |-> flag])
    ELSE [log |-> {"tokens_detected"}, flag |-> TRUE]

\* checkAndRefreshTokens lines 101-115: the transition notice and the flag
TransitionNotice(hasTokens, flag) ==
    IF ~hasTokens
    THEN (IF flag THEN [log |-> {"tokens_removed"}, flag |-> FALSE]
                  ELSE [log |-> {}, flag |-> flag])
    ELSE (IF ~flag THEN [log |-> {"tokens_detected"}, flag |-> TRUE]
                   ELSE [log |-> {}, flag |-> flag])

\* Variant: checkAndRefreshTokens without its try/catch, a rejected lookup
\* rejecting the tick
TickLookupUncaught(pr, latestTokens, dbOk, flag, e, t) ==
    IF ~dbOk THEN
        [proc |-> Finish([pr EXCEPT !.dbFailed = TRUE, !.t0 = t], Ret("throw")),
         flag |-> flag, log |-> {}]
    ELSE LET n == TransitionNotice(latestTokens # None, flag)
         IN  IF latestTokens = None THEN
                 [proc |-> Finish([pr EXCEPT !.t0 = t], Ret("void")),
                  flag |-> n.flag, log |-> n.log]
             ELSE IF needsRefresh(latestTokens[1], t) THEN
                 LET asked == [pr EXCEPT !.seen = latestTokens, !.t0 = t]
                     next == BeginRefresh(asked, latestTokens[1].refreshToken, e, t)
                 IN  [proc |-> next, flag |-> n.flag,
                      log |-> n.log \cup {"need_refresh"} \cup
                              (IF next.pc = "done" THEN LogAfterRefresh(asked, None) ELSE {})]
             ELSE [proc |-> Finish([pr EXCEPT !.seen = latestTokens, !.t0 = t], Ret("void")),
                   flag |-> n.flag, log |-> n.log \cup {"still_valid"}]

\* checkAndRefreshTokens lines 98-120 and 135-140: from the call to the first
\* await after the lookup.  A rejected lookup is caught at line 138.  The
\* refresh is asked for with tokens.refreshToken as it is stored.
TickLookup(pr, latestTokens, dbOk, flag, e, t) ==
    IF ~dbOk THEN
        [proc |-> Finish([pr EXCEPT !.caught = TRUE, !.dbFailed = TRUE, !.t0 = t], Ret("void")),
         flag |-> flag, log |-> {"tick_error"}]
    ELSE LET n == TransitionNotice(latestTokens # None, flag)
         IN  IF latestTokens = None THEN
                 [proc |-> Finish([pr EXCEPT !.t0 = t], Ret("void")),
                  flag |-> n.flag, log |-> n.log]
             ELSE IF needsRefresh(latestTokens[1], t) THEN
                 LET asked == [pr EXCEPT !.seen = latestTokens, !.t0 = t]
                     next == BeginRefresh(asked, latestTokens[1].refreshToken, e, t)
                 IN  [proc |-> next, flag |-> n.flag,
                      log |-> n.log \cup {"need_refresh"} \cup
                              (IF next.pc = "done" THEN LogAfterRefresh(asked, None) ELSE {})]
             ELSE [proc |-> Finish([pr EXCEPT !.seen = latestTokens, !.t0 = t], Ret("void")),
                   flag |-> n.flag, log |-> n.log \cup {"still_valid"}]

\* checkAndRefreshTokens lines 126-130 and 138-140: getTokenStatus resolved or
\* rejected; a rejection is caught.
TickReport(pr, dbOk) ==
    IF ~dbOk THEN Finish([pr EXCEPT !.caught = TRUE, !.dbFailed = TRUE], Ret("void"))
    ELSE Finish(pr, Ret("void"))

\* performHealthCheck: what it logs
HealthReport(latestTokens, dbOk, t) ==
    IF ~dbOk THEN {"health_error"}
    ELSE IF latestTokens = None THEN {"health_no_tokens"}
    ELSE LET status == getTokenStatus(latestTokens[1], t)
         IN  {"health_results"}
             \cup (IF status.expiresIn <= 30 /\ status.expiresIn > 0
                   THEN {"warning_expire_soon"} ELSE {})
             \cup (IF ~status.isValid THEN {"alert_expired"} ELSE {})

---------------------------------------------------------------------------
(* Initial state *)

StartTime == 55 * MINUTE
MaxNow == StartTime + MaxAdvance * CRON_REFRESH_MINUTES * MINUTE

Envs == [creds : BOOLEAN, key : {NoKey, ShortKey, GoodKey}]

\* A row written before this behaviour starts: pair 0 under the good key, no expiry.
LegacyRow ==
    Row(1, encrypt(Token(AT, 0), RandomBytes(0), GoodKey).val,
           encrypt(Token(RT, 0), RandomBytes(1), GoodKey).val, NoDate, StartTime)

InitStores == {{}, {LegacyRow}}

Init ==
    /\ store \in InitStores
    /\ nextId = Cardinality(store) + 1
    /\ ivCtr = 2 * Cardinality(store)
    /\ now = StartTime
    /\ due = [refresh |-> FALSE, health |-> FALSE]
    /\ env \in Envs
    /\ issued = 0
    /\ provValid = {0}
    /\ refreshTask = FALSE
    /\ healthCheckTask = FALSE
    /\ lastTokenCheckHadTokens = FALSE
    /\ proc = [p \in Procs |-> Idle]
    /\ last = Idle
    /\ log = {}
    /\ prevHad = FALSE
    /\ legacy = (store # {})
    /\ timers = [refresh |-> 0, health |-> 0]

---------------------------------------------------------------------------
(* What a step shows - the call that returned, the lines logged - is taken  *)
(* up before the next step runs.                                           *)

Quiet == last = Idle /\ log = {}

Observe ==
    /\ ~Quiet
    /\ last' = Idle
    /\ log' = {}
    /\ UNCHANGED <<store, nextId, ivCtr, now, due, env, issued, provValid, refreshTask,
                   healthCheckTask, lastTokenCheckHadTokens, proc, prevHad, legacy,
                   timers>>

---------------------------------------------------------------------------
(* Actions of the scheduler *)

sched == <<refreshTask, healthCheckTask, timers>>
provider == <<issued, provValid>>
table == <<store, nextId, ivCtr>>

\* Variant: start scheduling a task whether or not one is running
StartTaskAgain(running, n) ==
    [running |-> TRUE, timers |-> n + 1, started |-> TRUE]

\* startRefreshScheduler / startHealthCheckScheduler, lines 19-32 and 40-53:
\* nothing but a warning when the task exists, else cron.schedule and start
StartTask(running, n) ==
    IF running THEN [running |-> TRUE, timers |-> n, started |-> FALSE]
    ELSE [running |-> TRUE, timers |-> n + 1, started |-> TRUE]

\* stopRefreshScheduler / stopHealthCheckScheduler, lines 68-72 and 79-83
StopTask(running, n) ==
    IF running THEN [running |-> FALSE, timers |-> n - 1, stopped |-> TRUE]
    ELSE [running |-> running, timers |-> n, stopped |-> FALSE]

\* getSchedulerStatus(), lines 209-212
getSchedulerStatus ==
    [refreshSchedulerRunning |-> refreshTask,
     healthCheckSchedulerRunning |-> healthCheckTask]

startRefreshScheduler ==
    /\ Quiet
    /\ LET r == StartTask(refreshTask, timers.refresh)
       IN  /\ refreshTask' = r.running
           /\ timers' = [timers EXCEPT !.refresh = r.timers]
           /\ log' = IF r.started THEN {"refresh_started"} ELSE {"refresh_already_running"}
    /\ UNCHANGED <<table, now, due, env, provider, healthCheckTask,
                   lastTokenCheckHadTokens, proc, last, prevHad, legacy>>

startHealthCheckScheduler ==
    /\ Quiet
    /\ LET h == StartTask(healthCheckTask, timers.health)
       IN  /\ healthCheckTask' = h.running
           /\ timers' = [timers EXCEPT !.health = h.timers]
           /\ log' = IF h.started THEN {"health_started"} ELSE {"health_already_running"}
    /\ UNCHANGED <<table, now, due, env, provider, refreshTask,
                   lastTokenCheckHadTokens, proc, last, prevHad, legacy>>

startAll ==
    /\ Quiet
    /\ LET r == StartTask(refreshTask, timers.refresh)
           h == StartTask(healthCheckTask, timers.health)
       IN  /\ refreshTask' = r.running
           /\ healthCheckTask' = h.running
           /\ timers' = [refresh |-> r.timers, health |-> h.timers]
           /\ log' = (IF r.started THEN {"refresh_started"} ELSE {"refresh_already_running"})
                     \cup (IF h.started THEN {"health_started"}
                                        ELSE {"health_already_running"})
    /\ UNCHANGED <<table, now, due, env, provider, lastTokenCheckHadTokens, proc, last,
                   prevHad, legacy>>

stopRefreshScheduler ==
    /\ Quiet
    /\ LET r == StopTask(refreshTask, timers.refresh)
       IN  /\ refreshTask' = r.running
           /\ timers' = [timers EXCEPT !.refresh = r.timers]
           /\ log' = IF r.stopped THEN {"refresh_stopped"} ELSE {}
    /\ due' = [due EXCEPT !.refresh = FALSE]
    /\ UNCHANGED <<table, now, env, provider, healthCheckTask,
                   lastTokenCheckHadTokens, proc, last, prevHad, legacy>>

stopHealthCheckScheduler ==
    /\ Quiet
    /\ LET h == StopTask(healthCheckTask, timers.health)
       IN  /\ healthCheckTask' = h.running
           /\ timers' = [timers EXCEPT !.health = h.timers]
           /\ log' = IF h.stopped THEN {"health_stopped"} ELSE {}
    /\ due' = [due EXCEPT !.health = FALSE]
    /\ UNCHANGED <<table, now, env, provider, refreshTask,
                   lastTokenCheckHadTokens, proc, last, prevHad, legacy>>

stopAll ==
    /\ Quiet
    /\ LET r == StopTask(refreshTask, timers.refresh)
           h == StopTask(healthCheckTask, timers.health)
       IN  /\ refreshTask' = r.running
           /\ healthCheckTask' = h.running
           /\ timers' = [refresh |-> r.timers, health |-> h.timers]
           /\ log' = (IF r.stopped THEN {"refresh_stopped"} ELSE {})
                     \cup (IF h.stopped THEN {"health_stopped"} ELSE {})
    /\ due' = [refresh |-> FALSE, health |-> FALSE]
    /\ UNCHANGED <<table, now, env, provider, lastTokenCheckHadTokens, proc, last,
                   prevHad, legacy>>

\* The slot a new execution of checkAndRefreshTokens takes: the lowest free one
FreeTick(t) == t \in Ticks /\ Free(t) /\ \A u \in Ticks : u < t => InFlight(u)

\* checkAndRefreshTokens is called and runs to its first await after the lookup
checkAndRefreshTokens(t) ==
    /\ Quiet
    /\ FreeTick(t)
    /\ \E dbOk \in BOOLEAN, latestTokens \in getLatestTokens(store) :
          LET r == TickLookup(Call("tick"), latestTokens, dbOk,
                              lastTokenCheckHadTokens, env, now)
          IN  /\ Settle(t, r.proc)
              /\ lastTokenCheckHadTokens' = r.flag
              /\ log' = r.log
              /\ prevHad' = IF dbOk THEN latestTokens # None ELSE prevHad
    /\ UNCHANGED <<table, now, env, provider, sched, legacy>>

\* The cron job of startRefreshScheduler fires (lines 25-27)
RefreshCron ==
    /\ refreshTask
    /\ due.refresh
    /\ due' = [due EXCEPT !.refresh = FALSE]
    /\ \E t \in Ticks : checkAndRefreshTokens(t)

runOneTimeRefreshCheck ==
    /\ UNCHANGED due
    /\ \E t \in Ticks : checkAndRefreshTokens(t)

\* The tick's getTokenStatus after a successful refresh
checkAndRefreshTokensReport(t) ==
    /\ Quiet
    /\ t \in Ticks
    /\ proc[t].pc = "report"
    /\ \E dbOk \in BOOLEAN :
          /\ Settle(t, TickReport(proc[t], dbOk))
          /\ log' = IF dbOk THEN {"new_expiry"} ELSE {"tick_error"}
    /\ UNCHANGED <<table, now, due, env, provider, sched, lastTokenCheckHadTokens, prevHad, legacy>>

\* performHealthCheck: one await, of getTokenStatus; a rejection is caught
\* at line 181
\* Variant: the health check asking the provider for a new pair
HealthCheckRefreshing(pr, latestTokens, dbOk, t) ==
    IF ~dbOk THEN Finish([pr EXCEPT !.caught = TRUE, !.dbFailed = TRUE, !.t0 = t], Ret("void"))
    ELSE Finish([pr EXCEPT !.seen = latestTokens, !.t0 = t,
                           !.calls = IF latestTokens = None THEN 0 ELSE 1], Ret("void"))

HealthCheck(pr, latestTokens, dbOk, t) ==
    IF ~dbOk THEN Finish([pr EXCEPT !.caught = TRUE, !.dbFailed = TRUE, !.t0 = t], Ret("void"))
    ELSE Finish([pr EXCEPT !.seen = latestTokens, !.t0 = t], Ret("void"))

performHealthCheck ==
    /\ Quiet
    /\ \E dbOk \in BOOLEAN, latestTokens \in getLatestTokens(store) :
          /\ log' = HealthReport(latestTokens, dbOk, now)
          /\ last' = HealthCheck(Call("performHealthCheck"), latestTokens, dbOk, now)
    /\ UNCHANGED <<table, now, env, provider, sched, lastTokenCheckHadTokens, proc, prevHad, legacy>>

\* The cron job of startHealthCheckScheduler fires (lines 46-48)
HealthCron ==
    /\ healthCheckTask
    /\ due.health
    /\ due' = [due EXCEPT !.health = FALSE]
    /\ performHealthCheck

runOneTimeHealthCheck ==
    /\ UNCHANGED due
    /\ performHealthCheck

---------------------------------------------------------------------------
(* Actions of LightspeedTokenService: the steps of a refresh in flight *)

\* Room for one more write within the bound
CanWrite == ivCtr + 2 <= 2 * MaxWrites

\* requestTokenRefresh's fetch resolves (or rejects) for call p
RefreshResponse(p) ==
    /\ Quiet
    /\ proc[p].pc = "fetch"
    /\ \E answer \in RefreshAnswers(proc[p].sent[1], issued, provValid) :
          LET next == OnResponse(proc[p], answer, env, now)
          IN  /\ Settle(p, next)
              /\ issued' = answer.issued
              /\ provValid' = answer.valid
              /\ log' = IF next.pc = "done" THEN LogAfterRefresh(proc[p], None) ELSE {}
    /\ UNCHANGED <<table, now, due, env, sched, lastTokenCheckHadTokens, prevHad, legacy>>

\* refreshTokens line 461 resolves for call p
RefreshLatest(p) ==
    /\ Quiet
    /\ proc[p].pc = "latest"
    /\ \E dbOk \in BOOLEAN, latestTokens \in getLatestTokens(store) :
          LET next == OnLatest(proc[p], latestTokens, dbOk, env, now)
          IN  /\ Settle(p, [next EXCEPT !.at = now])
              /\ log' = IF next.pc = "done" THEN LogAfterRefresh(proc[p], None) ELSE {}
    /\ UNCHANGED <<table, now, due, env, provider, sched, lastTokenCheckHadTokens, prevHad, legacy>>

\* The create or update of refreshTokens resolves for call p; its data (expiry,
\* updatedAt) was computed when the call was made, at proc[p].at.
RefreshWrite(p) ==
    /\ Quiet
    /\ proc[p].pc = "write"
    /\ CanWrite
    /\ \E dbOk \in BOOLEAN :
          LET w == WriteResult(proc[p], store, nextId, ivCtr, proc[p].at, env.key, dbOk)
              next == OnWritten(proc[p], w, dbOk, env, now)
          IN  /\ Settle(p, next)
              /\ store' = w.store
              /\ nextId' = w.nextId
              /\ ivCtr' = w.ivCtr
              /\ log' = IF next.pc = "done"
                        THEN LogAfterRefresh(proc[p], IF w.threw THEN None ELSE w.row)
                        ELSE {}
    /\ UNCHANGED <<now, due, env, provider, sched, lastTokenCheckHadTokens, prevHad, legacy>>

\* refreshTokens line 480 resolves for call p
RefreshReread(p) ==
    /\ Quiet
    /\ proc[p].pc = "reread"
    /\ \E dbOk \in BOOLEAN, latestTokens \in getLatestTokens(store) :
          LET next == OnReread(proc[p], latestTokens, dbOk, env, now)
          IN  /\ Settle(p, next)
              /\ log' = LogAfterRefresh(proc[p], IF dbOk THEN latestTokens ELSE None)
    /\ UNCHANGED <<table, now, due, env, provider, sched, lastTokenCheckHadTokens, prevHad, legacy>>

---------------------------------------------------------------------------
(* Actions of LightspeedTokenService: the calls a client makes *)

\* Variant: getValidAccessToken refreshing whatever the expiry of the row
GvatLookupAlwaysRefreshing(pr, latestTokens, dbOk, e, t) ==
    IF ~dbOk THEN Finish([pr EXCEPT !.dbFailed = TRUE, !.t0 = t], Ret("throw"))
    ELSE IF latestTokens = None THEN Finish([pr EXCEPT !.t0 = t], Ret("null"))
    ELSE LET tokens == latestTokens[1]
             seen == [pr EXCEPT !.seen = latestTokens, !.t0 = t]
             d == decrypt(tokens.refreshToken, e.key)
         IN  IF d.threw THEN Finish(seen, Ret("throw"))
             ELSE BeginRefresh(seen, d.val, e, t)

\* getValidAccessToken lines 326-348, up to the await of refreshTokens
GvatLookup(pr, latestTokens, dbOk, e, t) ==
    IF ~dbOk THEN Finish([pr EXCEPT !.dbFailed = TRUE, !.t0 = t], Ret("throw"))
    ELSE IF latestTokens = None THEN Finish([pr EXCEPT !.t0 = t], Ret("null"))
    ELSE LET tokens == latestTokens[1]
             seen == [pr EXCEPT !.seen = latestTokens, !.t0 = t]
         IN  IF needsRefresh(tokens, t)
             THEN LET d == decrypt(tokens.refreshToken, e.key)
                  IN  IF d.threw THEN Finish(seen, Ret("throw"))
                      ELSE BeginRefresh(seen, d.val, e, t)
             ELSE LET d == decrypt(tokens.accessToken, e.key)
                  IN  IF d.threw THEN Finish(seen, Ret("throw"))
                      ELSE Finish(seen, RetToken(d.val, tokens, t))

getValidAccessToken ==
    /\ Quiet
    /\ Free(Client)
    /\ \E dbOk \in BOOLEAN, latestTokens \in getLatestTokens(store) :
          LET next == GvatLookup(Call("getValidAccessToken"), latestTokens, dbOk, env, now)
          IN  /\ Settle(Client, next)
              /\ log' = IF dbOk /\ latestTokens = None THEN {"no_tokens_found"}
                        ELSE IF next.ret.kind = "null" THEN {"failed_to_refresh"} ELSE {}
    /\ UNCHANGED <<table, now, due, env, provider, sched, lastTokenCheckHadTokens, prevHad, legacy>>

\* The refresh token a caller of refreshTokens passes: that of pair 0
RefreshInputs == {Token(RT, 0)}

\* refreshTokens called from outside the class, up to its fetch
refreshTokens ==
    /\ Quiet
    /\ Free(Client)
    /\ \E refreshToken \in RefreshInputs :
          LET next == BeginRefresh([Call("refreshTokens") EXCEPT !.t0 = now],
                                   refreshToken, env, now)
          IN  Settle(Client, next)
    /\ log' = {}
    /\ UNCHANGED <<table, now, due, env, provider, sched, lastTokenCheckHadTokens,
                   prevHad, legacy>>

\* Variant: cliRefresh without its try/catch
CliRefreshLookupUncaught(pr, latestTokens, dbOk, e, t) ==
    IF ~dbOk THEN Finish([pr EXCEPT !.dbFailed = TRUE, !.t0 = t], Ret("throw"))
    ELSE IF latestTokens = None THEN Finish([pr EXCEPT !.t0 = t], Ret("failure"))
    ELSE LET d == decrypt(latestTokens[1].refreshToken, e.key)
             seen == [pr EXCEPT !.seen = latestTokens, !.t0 = t]
         IN  IF d.threw THEN Finish(seen, Ret("throw"))
             ELSE BeginRefresh(seen, d.val, e, t)

\* cliRefresh lines 774-789, up to the await of refreshTokens; whatever is
\* thrown is caught at line 804.
CliRefreshLookup(pr, latestTokens, dbOk, e, t) ==
    IF ~dbOk THEN Finish([pr EXCEPT !.caught = TRUE, !.dbFailed = TRUE, !.t0 = t],
                         Ret("failure"))
    ELSE IF latestTokens = None THEN Finish([pr EXCEPT !.t0 = t], Ret("failure"))
    ELSE LET d == decrypt(latestTokens[1].refreshToken, e.key)
             seen == [pr EXCEPT !.seen = latestTokens, !.t0 = t]
         IN  IF d.threw THEN Finish([seen EXCEPT !.caught = TRUE], Ret("failure"))
             ELSE BeginRefresh(seen, d.val, e, t)

cliRefresh ==
    /\ Quiet
    /\ Free(Client)
    /\ \E dbOk \in BOOLEAN, latestTokens \in getLatestTokens(store) :
          Settle(Client, CliRefreshLookup(Call("cliRefresh"), latestTokens, dbOk, env, now))
    /\ log' = {}
    /\ UNCHANGED <<table, now, due, env, provider, sched, lastTokenCheckHadTokens, prevHad, legacy>>

\* cliRefresh lines 792-797, cliLogin lines 742-747, cliSetTokens lines
\* 981-987: getTokenStatus resolved or rejected
cliRefreshReport ==
    /\ Quiet
    /\ proc[Client].pc = "report"
    /\ \E dbOk \in BOOLEAN :
          Settle(Client, IF dbOk THEN Finish(proc[Client], Ret("success"))
                      ELSE Finish([proc[Client] EXCEPT !.caught = TRUE, !.dbFailed = TRUE],
                                  Ret("failure")))
    /\ log' = {}
    /\ UNCHANGED <<table, now, due, env, provider, sched, lastTokenCheckHadTokens, prevHad, legacy>>

\* The caller once loginWithAuthCode has returned `stored` (a row or None):
\* cliLogin lines 741-754; a caller from outside the class gets `stored` itself.
AfterLogin(pr, stored) ==
    IF pr.op = "cliLogin" THEN
        IF stored # None THEN [pr EXCEPT !.pc = "report"] ELSE Finish(pr, Ret("failure"))
    ELSE
        IF stored # None THEN Finish(pr, [Ret("row") EXCEPT !.row = stored])
        ELSE Finish(pr, Ret("null"))

\* Variant: loginWithAuthCode letting a failed exchange reach its caller
LoginExchangeRaising(pr, answer, e) ==
    LET tokenResponse == exchangeAuthCodeForTokens(answer)
        got == [pr EXCEPT !.body = answer.data, !.resp = tokenResponse,
                          !.outcome = answer.outcome, !.calls = pr.calls + 1]
    IN  IF tokenResponse = None
        THEN Finish(got, IF answer.outcome = "ok" THEN Ret("null") ELSE Ret("throw"))
        ELSE [got EXCEPT !.pc = "insert"]

\* loginWithAuthCode lines 544-549 with exchangeAuthCodeForTokens: missing
\* client credentials throw (line 577) and are caught at line 559.
LoginExchange(pr, answer, e) ==
    LET tokenResponse == exchangeAuthCodeForTokens(answer)
        got == [pr EXCEPT !.body = answer.data, !.resp = tokenResponse,
                          !.outcome = answer.outcome, !.calls = pr.calls + 1]
    IN  IF tokenResponse = None THEN AfterLogin(got, None)
        ELSE [got EXCEPT !.pc = "insert"]

loginWithAuthCode ==
    /\ Quiet
    /\ Free(Client)
    /\ IF ~HasClientCredentials(env)
       THEN /\ Settle(Client, Finish([Call("loginWithAuthCode") EXCEPT !.caught = TRUE],
                                  Ret("null")))
            /\ UNCHANGED provider
       ELSE \E answer \in ExchangeAnswers(issued) :
               /\ Settle(Client, [LoginExchange(Call("loginWithAuthCode"), answer, env)
                                  EXCEPT !.at = now])
               /\ issued' = answer.issued
               /\ provValid' = provValid \cup answer.valid
    /\ log' = {}
    /\ UNCHANGED <<table, now, due, env, sched, lastTokenCheckHadTokens, prevHad, legacy>>

\* loginWithAuthCode lines 551-562: the insert resolved or threw
LoginInserted(pr, w, dbOk) ==
    LET did == [Prints(pr, TokenLog(pr.resp[1].access_token, pr.resp[1].refresh_token,
                                    w.threw))
                   EXCEPT !.writes = IF w.threw THEN pr.writes ELSE pr.writes + 1,
                          !.dbFailed = pr.dbFailed \/ ~dbOk]
    IN  IF w.threw THEN AfterLogin([did EXCEPT !.caught = TRUE], None)
        ELSE AfterLogin(did, w.row)

loginInsert ==
    /\ Quiet
    /\ proc[Client].pc = "insert"
    /\ CanWrite
    /\ \E dbOk \in BOOLEAN :
          LET response == proc[Client].resp[1]
              w == insertTokens(response.access_token, response.refresh_token,
                                response.expires_in, store, nextId, ivCtr,
                                proc[Client].at, env.key, dbOk)
          IN  /\ Settle(Client, LoginInserted(proc[Client], w, dbOk))
              /\ store' = w.store
              /\ nextId' = w.nextId
              /\ ivCtr' = w.ivCtr
    /\ log' = {}
    /\ UNCHANGED <<now, due, env, provider, sched, lastTokenCheckHadTokens, prevHad, legacy>>

\* What an operator may pass to setTokensManually: pair 0, or an empty access
\* token; no expiry (undefined), 0 or 5 minutes.
ManualAccess == {Token(AT, 0), <<>>}
ManualMinutes == {NoNumber, 0, 5}

\* setTokensManually lines 897-913: throws on an empty token, else inserts
\* with (expiresInMinutes || 60) * 60 seconds
SetTokensResult(accessToken, refreshToken, expiresInMinutes, st, nid, ivn, t, key, dbOk) ==
    IF accessToken = <<>> \/ refreshToken = <<>> THEN WriteFailed(st, nid, ivn)
    ELSE LET minutes == IF expiresInMinutes = NoNumber \/ expiresInMinutes = 0
                        THEN DEFAULT_MANUAL_MINUTES ELSE expiresInMinutes
         IN  insertTokens(Some(accessToken), Some(refreshToken), minutes * 60,
                          st, nid, ivn, t, key, dbOk)

setTokensManually ==
    /\ Quiet
    /\ Free(Client)
    /\ CanWrite
    /\ \E accessToken \in ManualAccess, expiresInMinutes \in ManualMinutes,
          dbOk \in BOOLEAN :
          LET w == SetTokensResult(accessToken, Token(RT, 0), expiresInMinutes,
                                   store, nextId, ivCtr, now, env.key, dbOk)
              pr == [Call("setTokensManually") EXCEPT
                        !.resp = Some(Data(Some(accessToken), Some(Token(RT, 0)),
                                           expiresInMinutes)),
                        !.t0 = now, !.at = now,
                        !.writes = IF w.threw THEN 0 ELSE 1, !.dbFailed = ~dbOk,
                        !.printed = IF accessToken = <<>> THEN {}
                                    ELSE TokenLog(Some(accessToken), Some(Token(RT, 0)),
                                                  w.threw)]
          IN  /\ Settle(Client, IF w.threw THEN Finish(pr, Ret("throw"))
                             ELSE Finish(pr, [Ret("row") EXCEPT !.row = w.row]))
              /\ store' = w.store
              /\ nextId' = w.nextId
              /\ ivCtr' = w.ivCtr
    /\ log' = {}
    /\ UNCHANGED <<now, due, env, provider, sched, lastTokenCheckHadTokens, prevHad, legacy>>

\* clearTokens: deleteMany resolves or rejects
clear ==
    /\ Quiet
    /\ Free(Client)
    /\ \E dbOk \in BOOLEAN :
          /\ store' = IF dbOk THEN clearTokens(store) ELSE store
          /\ Settle(Client, Finish([Call("clearTokens") EXCEPT
                                    !.writes = IF dbOk THEN 1 ELSE 0, !.dbFailed = ~dbOk,
                                    !.count = Cardinality(store), !.t0 = now],
                                IF dbOk THEN Ret("void") ELSE Ret("throw")))
    /\ log' = {}
    /\ UNCHANGED <<nextId, ivCtr, now, due, env, provider, sched,
                   lastTokenCheckHadTokens, prevHad, legacy>>

---------------------------------------------------------------------------
(* The store's own operations, called from outside the class *)

\* What a caller may pass to insertTokens as expiresIn, seconds
InsertSeconds == {540, 600, 630, 660, 3600}

\* insertTokens(accessToken, refreshToken, expiresIn) with the tokens of pair 0
insert ==
    /\ Quiet
    /\ Free(Client)
    /\ CanWrite
    /\ \E expiresIn \in InsertSeconds, dbOk \in BOOLEAN :
          LET response == Data(Some(Token(AT, 0)), Some(Token(RT, 0)), expiresIn)
              w == insertTokens(response.access_token, response.refresh_token,
                                response.expires_in, store, nextId, ivCtr, now,
                                env.key, dbOk)
              pr == [Call("insertTokens") EXCEPT
                        !.resp = Some(response), !.t0 = now, !.at = now,
                        !.writes = IF w.threw THEN 0 ELSE 1, !.dbFailed = ~dbOk,
                        !.printed = TokenLog(response.access_token,
                                             response.refresh_token, w.threw)]
          IN  /\ Settle(Client, IF w.threw THEN Finish(pr, Ret("throw"))
                             ELSE Finish(pr, [Ret("row") EXCEPT !.row = w.row]))
              /\ store' = w.store
              /\ nextId' = w.nextId
              /\ ivCtr' = w.ivCtr
    /\ log' = {}
    /\ UNCHANGED <<now, due, env, provider, sched, lastTokenCheckHadTokens, prevHad, legacy>>

\* getLatestTokens() as its caller sees it: a row, null, or the rejection of
\* findFirst
LatestResult(pr, latestTokens, dbOk, t) ==
    IF ~dbOk THEN Finish([pr EXCEPT !.dbFailed = TRUE, !.t0 = t], Ret("throw"))
    ELSE Finish([pr EXCEPT !.seen = latestTokens, !.t0 = t],
                IF latestTokens = None THEN Ret("null")
                ELSE [Ret("row") EXCEPT !.row = latestTokens])

latest ==
    /\ Quiet
    /\ Free(Client)
    /\ \E dbOk \in BOOLEAN, latestTokens \in getLatestTokens(store) :
          last' = LatestResult(Call("getLatestTokens"), latestTokens, dbOk, now)
    /\ log' = {}
    /\ UNCHANGED <<table, now, due, env, provider, sched, lastTokenCheckHadTokens, proc,
                   prevHad, legacy>>

\* getTokenStatus() as its caller sees it
StatusResult(pr, latestTokens, dbOk, t) ==
    IF ~dbOk THEN Finish([pr EXCEPT !.dbFailed = TRUE, !.t0 = t], Ret("throw"))
    ELSE LET st == StatusOf(latestTokens, t)
         IN  Finish([pr EXCEPT !.seen = latestTokens, !.t0 = t],
                    IF st = None THEN Ret("null")
                    ELSE [Ret("status") EXCEPT !.status = st])

status ==
    /\ Quiet
    /\ Free(Client)
    /\ \E dbOk \in BOOLEAN, latestTokens \in getLatestTokens(store) :
          last' = StatusResult(Call("getTokenStatus"), latestTokens, dbOk, now)
    /\ log' = {}
    /\ UNCHANGED <<table, now, due, env, provider, sched, lastTokenCheckHadTokens, proc,
                   prevHad, legacy>>

\* needsRefresh(tokens) on a row of the table
needs ==
    /\ Quiet
    /\ \E tokens \in store :
          last' = Finish([Call("needsRefresh") EXCEPT !.seen = Some(tokens), !.t0 = now],
                         IF needsRefresh(tokens, now) THEN Ret("true") ELSE Ret("false"))
    /\ log' = {}
    /\ UNCHANGED <<table, now, due, env, provider, sched, lastTokenCheckHadTokens, proc,
                   prevHad, legacy>>

---------------------------------------------------------------------------
(* The clock.  A tick that is due starts before the clock moves on, as     *)
(* long as the model has a slot for it.                                    *)

Advance ==
    /\ Quiet
    /\ \E d \in TimeSteps :
          /\ now + d <= MaxNow
          /\ now' = now + d
          /\ due' = [refresh |-> refreshTask /\ (now + d) % (CRON_REFRESH_MINUTES * MINUTE) = 0,
                     health |-> healthCheckTask /\ (now + d) % (CRON_HEALTH_MINUTES * MINUTE) = 0]
    /\ ~(due.refresh /\ \E t \in Ticks : Free(t))
    /\ ~due.health
    /\ log' = {}
    /\ UNCHANGED <<table, env, provider, sched, lastTokenCheckHadTokens, proc, last, prevHad, legacy>>

\* No call is in flight
Alone == \A p \in Procs : Free(p)

\* The service with its calls made one at a time, each run to its end before
\* the next is made: the calls of a client, refresh ticks and health checks
\* run on demand, and the clock, which also moves while a call awaits.  The
\* scheduler's tasks are not started.
Next ==
    \/ Alone /\ runOneTimeRefreshCheck
    \/ Alone /\ runOneTimeHealthCheck
    \/ \E p \in Procs : RefreshResponse(p)
    \/ \E p \in Procs : RefreshLatest(p)
    \/ \E p \in Procs : RefreshWrite(p)
    \/ \E p \in Procs : RefreshReread(p)
    \/ Alone /\ getValidAccessToken
    \/ Alone /\ cliRefresh
    \/ cliRefreshReport
    \/ Alone /\ refreshTokens
    \/ Alone /\ loginWithAuthCode
    \/ loginInsert
    \/ Alone /\ setTokensManually
    \/ Alone /\ clear
    \/ Advance
    \/ Observe

Spec == Init /\ [][Next]_vars

\* The scheduler: its tasks started and stopped, their cron ticks, the ticks
\* run on demand, and the calls of an operator that put rows in the table and
\* take them out.
SchedNext ==
    \/ startRefreshScheduler
    \/ startHealthCheckScheduler
    \/ startAll
    \/ stopRefreshScheduler
    \/ stopHealthCheckScheduler
    \/ stopAll
    \/ RefreshCron
    \/ runOneTimeRefreshCheck
    \/ HealthCron
    \/ runOneTimeHealthCheck
    \/ \E t \in Ticks : RefreshResponse(t)
    \/ setTokensManually
    \/ clear
    \/ Advance
    \/ Observe

SchedSpec == Init /\ [][SchedNext]_vars

---------------------------------------------------------------------------
(* The operator's commands *)

SPACE == 32
MIN_TOKEN_LENGTH == 10

\* What an operator may type as authorization code: nothing, or a code
AuthCodes == {<<>>, <<7>>}

\* What an operator may type as access token: nothing, a string too short, a
\* string with a space in it, the access token of pair 0
TypedAccess ==
    {<<>>, <<AT, 0, 0>>, [i \in 1..TokenLen |-> IF i = 3 THEN SPACE ELSE 0], Token(AT, 0)}

\* cliSetTokens lines 957-978: the message-only answers before anything is done
TokensRefused(accessToken, refreshToken) ==
    \/ accessToken = <<>> \/ refreshToken = <<>>
    \/ Len(accessToken) < MIN_TOKEN_LENGTH \/ Len(refreshToken) < MIN_TOKEN_LENGTH
    \/ \E i \in DOMAIN accessToken : accessToken[i] = SPACE
    \/ \E i \in DOMAIN refreshToken : refreshToken[i] = SPACE

\* cliLogin lines 731-739 with loginWithAuthCode up to its fetch
cliLogin ==
    /\ Quiet
    /\ Free(Client)
    /\ \E authCode \in AuthCodes :
          LET pr == [Call("cliLogin") EXCEPT !.sent = Some(authCode), !.t0 = now]
          IN  IF authCode = <<>>
              THEN Settle(Client, Finish(pr, Ret("failure"))) /\ UNCHANGED provider
              ELSE IF ~HasClientCredentials(env)
              THEN /\ Settle(Client, AfterLogin([pr EXCEPT !.caught = TRUE], None))
                   /\ UNCHANGED provider
              ELSE \E answer \in ExchangeAnswers(issued) :
                      /\ Settle(Client, [LoginExchange(pr, answer, env) EXCEPT !.at = now])
                      /\ issued' = answer.issued
                      /\ provValid' = provValid \cup answer.valid
    /\ log' = {}
    /\ UNCHANGED <<table, now, due, env, sched, lastTokenCheckHadTokens, prevHad, legacy>>

\* cliSetTokens lines 957-981: the checks, then setTokensManually; what it
\* throws is caught at line 988
cliSetTokens ==
    /\ Quiet
    /\ Free(Client)
    /\ CanWrite
    /\ \E accessToken \in TypedAccess, expiresInMinutes \in ManualMinutes,
          dbOk \in BOOLEAN :
          LET refreshToken == Token(RT, 0)
              refused == TokensRefused(accessToken, refreshToken)
              w == IF refused THEN WriteFailed(store, nextId, ivCtr)
                   ELSE SetTokensResult(accessToken, refreshToken, expiresInMinutes,
                                        store, nextId, ivCtr, now, env.key, dbOk)
              pr == [Call("cliSetTokens") EXCEPT
                        !.resp = Some(Data(Some(accessToken), Some(refreshToken),
                                           expiresInMinutes)),
                        !.t0 = now, !.at = now,
                        !.writes = IF w.threw THEN 0 ELSE 1,
                        !.dbFailed = ~refused /\ ~dbOk,
                        !.caught = ~refused /\ w.threw,
                        !.printed = IF refused THEN {}
                                    ELSE TokenLog(Some(accessToken), Some(refreshToken),
                                                  w.threw)]
          IN  /\ Settle(Client, IF w.threw THEN Finish(pr, Ret("failure"))
                             ELSE [pr EXCEPT !.pc = "report"])
              /\ store' = w.store
              /\ nextId' = w.nextId
              /\ ivCtr' = w.ivCtr
    /\ log' = {}
    /\ UNCHANGED <<now, due, env, provider, sched, lastTokenCheckHadTokens, prevHad, legacy>>

\* cliStatus lines 824-861: getTokenStatus resolved or rejected
CliStatusResult(pr, latestTokens, dbOk, t) ==
    IF ~dbOk THEN Finish([pr EXCEPT !.caught = TRUE, !.dbFailed = TRUE, !.t0 = t],
                         Ret("failure"))
    ELSE LET st == StatusOf(latestTokens, t)
         IN  Finish([pr EXCEPT !.seen = latestTokens, !.t0 = t],
                    IF st = None THEN Ret("failure")
                    ELSE [Ret("success") EXCEPT !.status = st])

cliStatus ==
    /\ Quiet
    /\ Free(Client)
    /\ \E dbOk \in BOOLEAN, latestTokens \in getLatestTokens(store) :
          last' = CliStatusResult(Call("cliStatus"), latestTokens, dbOk, now)
    /\ log' = {}
    /\ UNCHANGED <<table, now, due, env, provider, sched, lastTokenCheckHadTokens, proc,
                   prevHad, legacy>>

\* cliClear lines 866-880: clearTokens resolved or rejected
cliClear ==
    /\ Quiet
    /\ Free(Client)
    /\ \E dbOk \in BOOLEAN :
          /\ store' = IF dbOk THEN clearTokens(store) ELSE store
          /\ last' = Finish([Call("cliClear") EXCEPT
                                !.writes = IF dbOk THEN 1 ELSE 0, !.dbFailed = ~dbOk,
                                !.caught = ~dbOk, !.count = Cardinality(store),
                                !.t0 = now],
                            IF dbOk THEN Ret("success") ELSE Ret("failure"))
    /\ log' = {}
    /\ UNCHANGED <<nextId, ivCtr, now, due, env, provider, sched,
                   lastTokenCheckHadTokens, proc, prevHad, legacy>>

---------------------------------------------------------------------------
(* encrypt and decrypt called on their own.  A text is the sequence of the   *)
(* bytes of its UTF-8 form, so the texts are the well-formed strings.       *)

\* The texts encrypted: empty, one byte (the padding byte among them), a few
\* bytes, tokens
Plaintexts ==
    {<<>>, <<0>>, <<PAD>>, <<255>>, <<1, 2>>, <<255, 255, 255>>, Token(AT, 0), Token(RT, 1)}

\* encrypt(text): throws without a key before it draws a vector (line 276),
\* on a key of the wrong length after it has drawn one (lines 280-290)
encryptText ==
    /\ Quiet
    /\ ivCtr < 2 * MaxWrites
    /\ \E text \in Plaintexts :
          LET c == encrypt(text, RandomBytes(ivCtr), env.key)
          IN  last' = Finish([Call("encrypt") EXCEPT !.sent = Some(text)],
                             IF c.threw THEN Ret("throw")
                             ELSE [Ret("value") EXCEPT !.tok = c.val])
    /\ ivCtr' = IF env.key = NoKey THEN ivCtr ELSE ivCtr + 1
    /\ log' = {}
    /\ UNCHANGED <<store, nextId, now, due, env, provider, sched, lastTokenCheckHadTokens,
                   proc, prevHad, legacy>>

\* decrypt(encryptedText) of what encrypt has just returned; the call record
\* keeps, as body, the text that was encrypted
decryptText ==
    /\ last.op = "encrypt"
    /\ last.ret.kind = "value"
    /\ LET d == decrypt(last.ret.tok, env.key)
       IN  last' = Finish([Call("decrypt") EXCEPT !.sent = Some(last.ret.tok),
                                                  !.body = last.sent],
                          IF d.threw THEN Ret("throw")
                          ELSE [Ret("value") EXCEPT !.tok = d.val])
    /\ log' = {}
    /\ UNCHANGED <<table, now, due, env, provider, sched, lastTokenCheckHadTokens,
                   proc, prevHad, legacy>>

CryptoNext ==
    \/ encryptText
    \/ decryptText
    \/ Observe

CryptoSpec == Init /\ [][CryptoNext]_vars

\* The operator's commands, one at a time, each run to its end, while the
\* clock moves
CliNext ==
    \/ cliLogin
    \/ loginInsert
    \/ cliSetTokens
    \/ cliRefresh
    \/ RefreshResponse(Client)
    \/ RefreshLatest(Client)
    \/ RefreshWrite(Client)
    \/ RefreshReread(Client)
    \/ cliRefreshReport
    \/ cliStatus
    \/ cliClear
    \/ Advance
    \/ Observe

CliSpec == Init /\ [][CliNext]_vars

\* The store and the functions that read it: rows inserted and deleted, the
\* latest row and its status read, a health check run on that status, while
\* the clock moves.
StoreNext ==
    \/ insert
    \/ clear
    \/ latest
    \/ status
    \/ needs
    \/ runOneTimeHealthCheck
    \/ Advance
    \/ Observe

StoreSpec == Init /\ [][StoreNext]_vars

---------------------------------------------------------------------------
(* The refresh task kept running over a record's whole lifetime *)

\* The clock one cron period further than the other specifications take it
LateNow == MaxNow + CRON_REFRESH_MINUTES * MINUTE

\* Time passes, up to LateNow; a cron tick that is due and can start runs
\* before the clock moves on.
AdvanceLate ==
    /\ Quiet
    /\ \E d \in TimeSteps :
          /\ now + d <= LateNow
          /\ now' = now + d
          /\ due' = [refresh |-> refreshTask /\ (now + d) % (CRON_REFRESH_MINUTES * MINUTE) = 0,
                     health |-> healthCheckTask /\ (now + d) % (CRON_HEALTH_MINUTES * MINUTE) = 0]
    /\ ~(due.refresh /\ \E t \in Ticks : Free(t))
    /\ ~due.health
    /\ log' = {}
    /\ UNCHANGED <<table, env, provider, sched, lastTokenCheckHadTokens, proc, last, prevHad, legacy>>

\* The step met no failure of the database and none of the network: every
\* query was answered, and every request reached the provider.
Answered ==
    \A pr \in {last'} \cup {proc'[p] : p \in Procs} :
        ~pr.dbFailed /\ pr.outcome # "network"

\* The refresh task is started and never stopped; one record is written
\* while it runs and nothing clears it; the task's ticks run every five
\* minutes, each with the steps of its refresh, and each has returned before
\* the next is due.  The database and the network work.
RenewalNext ==
    \/ startRefreshScheduler
    \/ refreshTask /\ store = {} /\ insert /\ Answered
    \/ RefreshCron /\ Answered
    \/ \E t \in Ticks : RefreshResponse(t) /\ Answered
    \/ \E t \in Ticks : RefreshLatest(t) /\ Answered
    \/ \E t \in Ticks : RefreshWrite(t) /\ Answered
    \/ Alone /\ AdvanceLate
    \/ Observe

RenewalSpec == Init /\ [][RenewalNext]_vars

---------------------------------------------------------------------------
(* The table shared: a refresh in flight in one process while the operator's *)
(* commands run in another, on a table that earlier runs may have left with  *)
(* more than one row                                                         *)

\* A second row written before this behaviour starts, by a second manual
\* entry of pair 0; its vectors are none of those drawn in this behaviour.
SecondRow ==
    Row(2, encrypt(Token(AT, 0), RandomBytes(2 * MaxWrites), GoodKey).val,
           encrypt(Token(RT, 0), RandomBytes(2 * MaxWrites + 1), GoodKey).val,
           NoDate, StartTime)

SharedStores == InitStores \cup {{LegacyRow, SecondRow}}

SharedInit ==
    /\ store \in SharedStores
    /\ nextId = Cardinality(store) + 1
    /\ ivCtr = IF store = {} THEN 0 ELSE 2
    /\ now = StartTime
    /\ due = [refresh |-> FALSE, health |-> FALSE]
    /\ env \in Envs
    /\ issued = 0
    /\ provValid = {0}
    /\ refreshTask = FALSE
    /\ healthCheckTask = FALSE
    /\ lastTokenCheckHadTokens = FALSE
    /\ proc = [p \in Procs |-> Idle]
    /\ last = Idle
    /\ log = {}
    /\ prevHad = FALSE
    /\ legacy = (store # {})
    /\ timers = [refresh |-> 0, health |-> 0]

\* `bun run tokens set` in another process: setTokensManually, whatever call
\* this process has in flight
setTokensElsewhere ==
    /\ Quiet
    /\ CanWrite
    /\ \E accessToken \in ManualAccess, expiresInMinutes \in ManualMinutes,
          dbOk \in BOOLEAN :
          LET w == SetTokensResult(accessToken, Token(RT, 0), expiresInMinutes,
                                   store, nextId, ivCtr, now, env.key, dbOk)
              pr == [Call("setTokensManually") EXCEPT
                        !.resp = Some(Data(Some(accessToken), Some(Token(RT, 0)),
                                           expiresInMinutes)),
                        !.t0 = now, !.at = now,
                        !.writes = IF w.threw THEN 0 ELSE 1, !.dbFailed = ~dbOk,
                        !.printed = IF accessToken = <<>> THEN {}
                                    ELSE TokenLog(Some(accessToken), Some(Token(RT, 0)),
                                                  w.threw)]
          IN  /\ last' = IF w.threw THEN Finish(pr, Ret("throw"))
                         ELSE Finish(pr, [Ret("row") EXCEPT !.row = w.row])
              /\ store' = w.store
              /\ nextId' = w.nextId
              /\ ivCtr' = w.ivCtr
    /\ log' = {}
    /\ UNCHANGED <<now, due, env, provider, sched, lastTokenCheckHadTokens, proc,
                   prevHad, legacy>>

\* `bun run tokens clear` in another process: clearTokens
clearElsewhere ==
    /\ Quiet
    /\ \E dbOk \in BOOLEAN :
          /\ store' = IF dbOk THEN clearTokens(store) ELSE store
          /\ last' = Finish([Call("clearTokens") EXCEPT
                                !.writes = IF dbOk THEN 1 ELSE 0, !.dbFailed = ~dbOk,
                                !.count = Cardinality(store), !.t0 = now],
                            IF dbOk THEN Ret("void") ELSE Ret("throw"))
    /\ log' = {}
    /\ UNCHANGED <<nextId, ivCtr, now, due, env, provider, sched,
                   lastTokenCheckHadTokens, proc, prevHad, legacy>>

\* A call refreshes while the operator sets and clears tokens from another
\* process between its steps, and the clock moves.
SharedNext ==
    \/ getValidAccessToken
    \/ refreshTokens
    \/ RefreshResponse(Client)
    \/ RefreshLatest(Client)
    \/ RefreshWrite(Client)
    \/ RefreshReread(Client)
    \/ setTokensElsewhere
    \/ clearElsewhere
    \/ Advance
    \/ Observe

SharedSpec == SharedInit /\ [][SharedNext]_vars

---------------------------------------------------------------------------
(* Refreshes that overlap: a tick of the refresh task and a call of a client *)

\* A refresh tick is awaiting the provider's answer
TickAwaits == \E t \in Ticks : proc[t].pc = "fetch"

\* Refresh ticks run on demand; getValidAccessToken and cliRefresh are called
\* while a tick awaits the provider, and the steps of the two interleave.
OverlapNext ==
    \/ runOneTimeRefreshCheck
    \/ \E t \in Ticks : RefreshResponse(t)
    \/ TickAwaits /\ getValidAccessToken
    \/ TickAwaits /\ cliRefresh
    \/ RefreshResponse(Client)
    \/ RefreshLatest(Client)
    \/ RefreshWrite(Client)
    \/ RefreshReread(Client)
    \/ cliRefreshReport
    \/ Observe

OverlapSpec == Init /\ [][OverlapNext]_vars

---------------------------------------------------------------------------
(* Properties.  They are stated over what a call did (its record, kept in  *)
(* `last` when it returned) and over the steps that change the store.      *)

\* The calls that run refreshTokens
RefreshOps == {"tick", "getValidAccessToken", "cliRefresh", "refreshTokens"}

\* Call p moves in this step
Steps(p) == proc'[p] # proc[p]

\* The provider exchange of the call recorded in pr failed: no answer (network
\* error) or an answer with a non-2xx status
FailedExchange(pr) == pr.op \in RefreshOps /\ pr.outcome \in {"network", "status"}

\* This step is a step of a call that runs refreshTokens
RefreshCallActs ==
    \/ \E p \in Procs : Steps(p) /\ (proc[p].op \in RefreshOps \/ proc'[p].op \in RefreshOps)
    \/ last' # last /\ last'.op \in RefreshOps

\* Fresh, as the specification defines it: now < expiresAt - 10 minutes
Fresh(row, t) ==
    row.expiresAt # NoDate /\ t < row.expiresAt - REFRESH_BUFFER_MINUTES * MINUTE

\* The row the call's lookup returned needed a refresh when it was looked up
NeedsRefreshAt(pr) == pr.seen # None /\ ~Fresh(pr.seen[1], pr.t0)

\* Some row of st holds the pair of `response`
HoldsPair(st, response, key) ==
    \E r \in st : /\ decrypt(r.accessToken, key) = Returned(response.access_token[1])
                  /\ decrypt(r.refreshToken, key) = Returned(response.refresh_token[1])

\* The execution of checkAndRefreshTokens that this step begins, as it stands
\* after its lookup; None when the step begins none
TickBegun ==
    IF \E t \in Ticks : Free(t) /\ proc'[t].op = "tick"
    THEN Some(proc'[CHOOSE t \in Ticks : Free(t) /\ proc'[t].op = "tick"])
    ELSE IF proc' = proc /\ last = Idle /\ last'.op = "tick" THEN Some(last')
    ELSE None

\* C1: when the provider exchange of a refresh fails (network error or
\* non-success status), the step in which the failure arrives ends the call
\* without a write, and no step of a call whose exchange failed changes the
\* store: the stored records after the call are those before it.
C1_FailedExchangeLeavesStore ==
    [][\A p \in Procs :
          /\ (proc[p].pc = "fetch" /\ Steps(p) /\ FailedExchange(last'))
                => (proc'[p] = Idle /\ last'.writes = 0 /\ store' = store)
          /\ (FailedExchange(proc[p]) /\ Steps(p)) => store' = store]_vars

C1_Witness ==
    FailedExchange(last) /\ last.calls = 1 /\ last.writes = 0 /\ store # {}

\* C2: a step of a refresh that changes the store is taken by a call whose
\* provider call has returned, with a successful (2xx) response: no write
\* before the provider call returns, and none unless it succeeded.
C2_WriteOnlyAfterSuccess ==
    [][(RefreshCallActs /\ store' # store)
          => \E p \in Procs : /\ Steps(p)
                              /\ proc[p].pc = "write"
                              /\ proc[p].calls = 1
                              /\ proc[p].outcome = "ok"
                              /\ proc[p].resp # None]_vars

C2_Witness ==
    last.op \in RefreshOps /\ last.outcome = "ok" /\ last.writes = 1

\* C3 (as the specification states it): once the provider has answered a
\* refresh with a new token pair, then - the configuration being complete and
\* no store operation failing - the store holds that pair when the call has
\* returned.
C3_IssuedPairIsStored ==
    (/\ last.op \in RefreshOps
     /\ last.outcome = "ok"
     /\ last.resp # None
     /\ Truthy(last.resp[1].access_token)
     /\ Truthy(last.resp[1].refresh_token)
     /\ ~last.dbFailed
     /\ env.key = GoodKey)
        => HoldsPair(store, last.resp[1], env.key)

\* C4 (as the specification states it): starting from an empty store, the
\* store never holds more than one record.
C4_AtMostOneRecord ==
    ~legacy => Cardinality(store) <= 1

\* C5 (as the specification states it): a token returned by
\* getValidAccessToken belongs to a record that is Fresh at the moment of
\* the return.
C5_ReturnedTokenIsFresh ==
    (last.op = "getValidAccessToken" /\ last.ret.kind = "value")
        => /\ decrypt(last.ret.row[1].accessToken, env.key) = Returned(last.ret.tok)
           /\ Fresh(last.ret.row[1], last.ret.at)

\* C6 (as the specification states it): one call of getValidAccessToken makes
\* exactly one provider call when the record it found needs refresh, and no
\* provider call and no store write when the record is Fresh or there is none.
C6_OneCallWheneverStale ==
    last.op = "getValidAccessToken"
        => /\ NeedsRefreshAt(last) => last.calls = 1
           /\ ~NeedsRefreshAt(last) => (last.calls = 0 /\ last.writes = 0)

\* The call can put its request to the provider: the stored refresh token
\* decrypts and the client credentials are configured
CanAskProvider(pr) ==
    /\ ~decrypt(pr.seen[1].refreshToken, env.key).threw
    /\ HasClientCredentials(env)

\* C6 (amended): one call of getValidAccessToken makes exactly one provider
\* call when the record it found needs refresh, its refresh token decrypts
\* and the client credentials are configured; it makes no provider call and
\* no store write when the record needs refresh but the token does not
\* decrypt or the credentials are missing, when the record is Fresh, and
\* when there is no record.
C6_OneCallWhenStaleAndConfigured ==
    last.op = "getValidAccessToken"
        => /\ (NeedsRefreshAt(last) /\ CanAskProvider(last)) => last.calls = 1
           /\ (NeedsRefreshAt(last) /\ ~CanAskProvider(last))
                 => (last.calls = 0 /\ last.writes = 0)
           /\ ~NeedsRefreshAt(last) => (last.calls = 0 /\ last.writes = 0)

C6_Witness ==
    /\ last.op = "getValidAccessToken"
    /\ NeedsRefreshAt(last)
    /\ CanAskProvider(last)
    /\ last.calls = 1

\* C7: the "tokens removed" notice is written in a step exactly when the step
\* begins a refresh tick whose lookup finds no record while the lookup of the
\* tick before it found one; so it is written once while the store stays
\* empty.
C7_RemovedNoticeOnTransition ==
    [][("tokens_removed" \in log')
          <=> (/\ TickBegun # None
               /\ ~TickBegun[1].dbFailed
               /\ TickBegun[1].seen = None
               /\ prevHad)]_vars

C7_Witness ==
    "tokens_removed" \in log /\ store = {} /\ ~lastTokenCheckHadTokens

\* C8: the "tokens detected" notice is written in a step exactly when the
\* step begins a refresh tick whose lookup finds a record while the lookup of
\* the tick before it found none, the first tick being preceded by one that
\* found none.
C8_DetectedNoticeOnTransition ==
    [][("tokens_detected" \in log')
          <=> (/\ TickBegun # None
               /\ ~TickBegun[1].dbFailed
               /\ TickBegun[1].seen # None
               /\ ~prevHad)]_vars

C8_Witness ==
    "tokens_detected" \in log /\ store # {} /\ lastTokenCheckHadTokens

\* C9: a refresh tick and a health-check tick always end normally, whatever
\* was thrown inside them, and the step in which one ends leaves the
\* scheduler's tasks as they were, so that the task's next tick runs.
C9_TickCatchesExceptions ==
    /\ [](last.op \in {"tick", "performHealthCheck"} => last.ret.kind = "void")
    /\ [][(last' # last /\ last'.op \in {"tick", "performHealthCheck"})
             => (refreshTask' = refreshTask /\ healthCheckTask' = healthCheckTask)]_vars

C9_Witness ==
    last.op = "tick" /\ last.caught /\ last.ret.kind = "void" /\ refreshTask

\* C10 (as the specification states it): at most one execution of
\* checkAndRefreshTokens is in flight at any time.
C10_OneTickInFlight ==
    Cardinality({t \in Ticks : InFlight(t)}) <= 1

\* C11: a call of refreshTokens or of loginWithAuthCode whose provider
\* exchange failed (transport error, non-success status) returns null to its
\* caller; it does not throw.
C11_ProviderFailureGivesNull ==
    (/\ last.op \in {"refreshTokens", "loginWithAuthCode"}
     /\ last.outcome \in {"network", "status"})
        => last.ret.kind = "null"

C11_Witness ==
    /\ last.op = "refreshTokens"
    /\ last.outcome = "network"
    /\ last.calls = 1
    /\ last.ret.kind = "null"

\* C12 (as the specification states it): with the OAuth client credentials
\* missing, refreshTokens and loginWithAuthCode throw, before any request to
\* the provider; with the encryption key missing they throw when they come
\* to store the pair the provider answered with.
C12_ConfigurationErrorIsRaised ==
    last.op \in {"refreshTokens", "loginWithAuthCode"}
        => /\ ~HasClientCredentials(env)
                => (last.ret.kind = "throw" /\ last.calls = 0)
           /\ (/\ env.key = NoKey
               /\ last.outcome = "ok"
               /\ last.resp # None
               /\ Truthy(last.resp[1].access_token)
               /\ Truthy(last.resp[1].refresh_token)
               /\ last.resp[1].expires_in # NoNumber
               /\ ~last.dbFailed)
                => last.ret.kind = "throw"

\* The calls that exchange something with the provider
ExchangeOps == RefreshOps \cup {"loginWithAuthCode"}

\* The body of a 2xx answer holds both tokens
HasBothTokens(body) == Truthy(body.access_token) /\ Truthy(body.refresh_token)

\* C13 (as the specification states it): when the provider answers 2xx with
\* a body that lacks access_token or refresh_token, the exchange function
\* (exchangeAuthCodeForTokens, requestTokenRefresh) returns null, and the
\* call stores nothing.
C13_MissingTokenGivesNone ==
    \A pr \in {proc[p] : p \in Procs} \cup {last} :
        (/\ pr.op \in ExchangeOps
         /\ pr.outcome = "ok"
         /\ ~HasBothTokens(pr.body[1]))
            => (pr.resp = None /\ pr.writes = 0)

\* C14 (as the specification states it): when the provider answers 2xx with
\* both tokens and no expires_in, the record written for that answer - the
\* configuration being complete and no store operation failing - expires
\* 3600 s after the time of the write.
C14_MissingExpiryDefaults ==
    (/\ last.op \in ExchangeOps
     /\ last.outcome = "ok"
     /\ HasBothTokens(last.body[1])
     /\ last.body[1].expires_in = NoNumber
     /\ ~last.dbFailed
     /\ env.key = GoodKey)
        => \E r \in store :
              /\ decrypt(r.refreshToken, env.key) = Returned(last.body[1].refresh_token[1])
              /\ r.expiresAt = last.at + DEFAULT_EXPIRES_IN * 1000

\* Inside the refresh buffer, as the specification defines needsRefresh: no
\* expiry, or now >= expiresAt - 10 minutes
InBuffer(row, t) ==
    row.expiresAt = NoDate \/ t >= row.expiresAt - REFRESH_BUFFER_MINUTES * MINUTE

\* C15: needsRefresh(record) is true exactly when expiresAt is null or
\* now >= expiresAt - 10 minutes: true for a record expiring 9 minutes from
\* now and for one expiring exactly 10 minutes from now, false for one
\* expiring 11 minutes from now.
C15_NeedsRefreshIsBufferTest ==
    last.op = "needsRefresh"
        => LET row == last.seen[1]
               answer == (last.ret.kind = "true")
           IN  /\ last.ret.kind \in {"true", "false"}
               /\ answer <=> InBuffer(row, last.t0)
               /\ row.expiresAt = NoDate => answer
               /\ row.expiresAt = last.t0 + 9 * MINUTE => answer
               /\ row.expiresAt = last.t0 + 10 * MINUTE => answer
               /\ row.expiresAt = last.t0 + 11 * MINUTE => ~answer

C15_Witness ==
    /\ last.op = "needsRefresh"
    /\ last.seen[1].expiresAt = last.t0 + 10 * MINUTE
    /\ last.ret.kind = "true"

\* floor((expiresAt - now) / 60 s), cut at zero
MinutesLeft(row, t) ==
    LET m == (row.expiresAt - t) \div MINUTE
    IN  IF m > 0 THEN m ELSE 0

\* C16: for the record found, getTokenStatus returns isValid = (expiresAt
\* non-null and now < expiresAt), expiresIn = max(0, floor((expiresAt - now)
\* / 60 s)) or 0 without expiry, and needsRefresh as needsRefresh(record)
\* gives it; without expiry that is: not valid, 0 minutes, needs refresh.
C16_StatusOfRecord ==
    (last.op = "getTokenStatus" /\ last.seen # None /\ ~last.dbFailed)
        => LET row == last.seen[1]
               t == last.t0
           IN  /\ last.ret.kind = "status"
               /\ LET st == last.ret.status[1]
                  IN  /\ st.isValid <=> (row.expiresAt # NoDate /\ t < row.expiresAt)
                      /\ st.expiresIn = IF row.expiresAt = NoDate THEN 0
                                        ELSE MinutesLeft(row, t)
                      /\ st.needsRefresh <=> InBuffer(row, t)
                      /\ row.expiresAt = NoDate
                            => (~st.isValid /\ st.expiresIn = 0 /\ st.needsRefresh)

\* A status of a record already expired
C16_Witness ==
    /\ last.op = "getTokenStatus"
    /\ last.ret.kind = "status"
    /\ last.seen[1].expiresAt # NoDate
    /\ last.seen[1].expiresAt < last.t0
    /\ last.ret.status[1].expiresIn = 0
    /\ ~last.ret.status[1].isValid

\* C17: getTokenStatus returns null exactly when the table holds no row, and
\* so does getLatestTokens.
C17_NoneIffEmpty ==
    /\ (last.op = "getTokenStatus" /\ ~last.dbFailed)
          => ((last.ret.kind = "null") <=> (store = {}))
    /\ (last.op = "getLatestTokens" /\ ~last.dbFailed)
          => ((last.ret.kind = "null") <=> (store = {}))

C17_Witness ==
    last.op = "getTokenStatus" /\ last.ret.kind = "null" /\ store = {}

\* C18: when insertTokens has put a pair with expiresIn = s > 600 seconds in
\* an empty table, the status read at once is: valid, no refresh needed,
\* expiresIn within one minute of s / 60.
C18_StatusAfterInsert ==
    (/\ last.op = "insertTokens"
     /\ last.ret.kind = "row"
     /\ store = {last.ret.row[1]}
     /\ last.resp[1].expires_in > 600)
        => \A latestTokens \in getLatestTokens(store) :
              LET st == StatusOf(latestTokens, now)
                  s == last.resp[1].expires_in
              IN  /\ st # None
                  /\ st[1].isValid
                  /\ ~st[1].needsRefresh
                  /\ st[1].expiresIn * 60 <= s + 60
                  /\ st[1].expiresIn * 60 >= s - 60

C18_Witness ==
    /\ last.op = "insertTokens"
    /\ last.ret.kind = "row"
    /\ store = {last.ret.row[1]}
    /\ last.resp[1].expires_in = DEFAULT_EXPIRES_IN
    /\ now = last.at

\* C19: when clearTokens has returned, getLatestTokens gives null and
\* getTokenStatus gives null, however many rows the table held.
C19_ClearEmptiesStore ==
    (last.op = "clearTokens" /\ last.ret.kind = "void")
        => \A latestTokens \in getLatestTokens(store) :
              latestTokens = None /\ StatusOf(latestTokens, now) = None

C19_Witness ==
    /\ last.op = "clearTokens"
    /\ last.ret.kind = "void"
    /\ last.count > 1
    /\ store = {}

\* What a step did to one scheduler task, read from the line it logged
StartedOrWarned(started, already) == {started, already} \cap log' # {}

\* C20: each scheduler task has at most one timer, and exactly one when
\* getSchedulerStatus reports it running. A start leaves the task running
\* with one timer, and a start that finds it running leaves the timer it had;
\* a stop that finds it running leaves it stopped with no timer; every other
\* step, a stop of a task that is not running among them, leaves the task and
\* its timer as they were. So the status reports running exactly when the
\* last call that changed the task was a start.
C20_StartStopIdempotent ==
    /\ [](/\ timers.refresh = (IF getSchedulerStatus.refreshSchedulerRunning THEN 1 ELSE 0)
          /\ timers.health = (IF getSchedulerStatus.healthCheckSchedulerRunning THEN 1 ELSE 0))
    /\ [][/\ StartedOrWarned("refresh_started", "refresh_already_running")
               => /\ getSchedulerStatus.refreshSchedulerRunning'
                  /\ timers'.refresh = 1
          /\ "refresh_already_running" \in log'
               => refreshTask /\ timers'.refresh = timers.refresh
          /\ "refresh_stopped" \in log'
               => /\ refreshTask
                  /\ ~getSchedulerStatus.refreshSchedulerRunning'
                  /\ timers'.refresh = 0
          /\ {"refresh_started", "refresh_already_running", "refresh_stopped"} \cap log' = {}
               => refreshTask' = refreshTask /\ timers'.refresh = timers.refresh
          /\ StartedOrWarned("health_started", "health_already_running")
               => /\ getSchedulerStatus.healthCheckSchedulerRunning'
                  /\ timers'.health = 1
          /\ "health_already_running" \in log'
               => healthCheckTask /\ timers'.health = timers.health
          /\ "health_stopped" \in log'
               => /\ healthCheckTask
                  /\ ~getSchedulerStatus.healthCheckSchedulerRunning'
                  /\ timers'.health = 0
          /\ {"health_started", "health_already_running", "health_stopped"} \cap log' = {}
               => healthCheckTask' = healthCheckTask /\ timers'.health = timers.health
         ]_vars

\* A start has just found both tasks running and left each with its one timer
C20_Witness ==
    /\ log = {"refresh_already_running", "health_already_running"}
    /\ timers = [refresh |-> 1, health |-> 1]
    /\ refreshTask /\ healthCheckTask

\* The health check of this record found a row whose expiry is at most 30
\* minutes away, or past
ExpiresWithinHalfHour(pr) ==
    /\ pr.op = "performHealthCheck"
    /\ pr.seen # None
    /\ pr.seen[1].expiresAt # NoDate
    /\ pr.seen[1].expiresAt - pr.t0 <= 30 * MINUTE

\* C21 (as the specification states it): a health check that finds a record
\* whose expiry is at most 30 minutes away - less than one minute away
\* included - or already past writes the warning or the alert.
C21_HealthCheckWarns ==
    ExpiresWithinHalfHour(last)
        => {"warning_expire_soon", "alert_expired"} \cap log # {}

\* C22: under a key of 32 bytes, decrypt of what encrypt returned for a text
\* is that text; and what encrypt returns is the 16-byte vector, one
\* separator, and the payload, so that decrypt is given nothing but it and
\* the key.
C22_DecryptInvertsEncrypt ==
    /\ (last.op = "decrypt" /\ env.key = GoodKey)
          => (last.ret.kind = "value" /\ last.ret.tok = last.body[1])
    /\ (last.op = "encrypt" /\ last.ret.kind = "value")
          => /\ Cardinality(SepPositions(last.ret.tok)) = 1
             /\ FirstSep(last.ret.tok) = IV_BYTES + 1
             /\ Len(last.ret.tok) > IV_BYTES + 1

\* A token has come back from decrypt, encrypted under a vector other than
\* the first
C22_Witness ==
    /\ last.op = "decrypt"
    /\ last.ret.kind = "value"
    /\ last.ret.tok = Token(RT, 1)
    /\ last.sent[1][1] > 0

\* The ciphertexts a row holds
Ciphertexts(row) == {row.accessToken, row.refreshToken}

\* C23: no two calls of encrypt return the same ciphertext, whatever the
\* texts: the ciphertexts held in the store differ from one another, and a
\* row written in a step holds none of the ciphertexts the store held before
\* the step - so an update that stores the refresh token the row already
\* held changes its ciphertext.
C23_CiphertextsDiffer ==
    /\ [](\A r1, r2 \in store :
            /\ r1.accessToken # r2.refreshToken
            /\ r1 # r2 => Ciphertexts(r1) \cap Ciphertexts(r2) = {})
    /\ [][\A new \in store' \ store : \A old \in store :
              Ciphertexts(new) \cap Ciphertexts(old) = {}]_vars

\* A refresh has updated the row with the refresh token that it sent, the
\* provider having repeated it
C23_Witness ==
    /\ last.op \in RefreshOps
    /\ last.writes = 1
    /\ last.latest # None
    /\ last.resp[1].refresh_token = last.sent
    /\ \E r \in store : /\ r.id = last.latest[1]
                        /\ decrypt(r.refreshToken, env.key) = Returned(last.sent[1])

\* The strings that are tokens in the clear
ClearTokens == {Token(kind, n) : kind \in {AT, RT}, n \in 0..MaxIssued}

\* The string is what encrypt returns for some token: a 16-byte vector, the
\* separator, and a payload that the key deciphers to a token
IsEncrypted(field) ==
    /\ field \notin ClearTokens
    /\ Len(SplitHead(field)) = IV_BYTES
    /\ LET d == decrypt(field, GoodKey)
       IN  /\ d.val \in ClearTokens
           /\ encrypt(d.val, SplitHead(field), GoodKey) = Returned(field)

\* Both tokens of the row are ciphertexts
RowIsEncrypted(r) == IsEncrypted(r.accessToken) /\ IsEncrypted(r.refreshToken)

\* C24: the accessToken and the refreshToken of every row of the table are
\* ciphertexts returned by encrypt, and no row holds a token in the clear:
\* it is so of the rows the table starts with and of every row a step puts
\* in the table, by insert or by update.
C24_StoredTokensAreEncrypted ==
    /\ \A r \in store : RowIsEncrypted(r)
    /\ [][\A r \in store' \ store : RowIsEncrypted(r)]_vars

\* A refresh has updated a row of the table
C24_Witness ==
    /\ store # {}
    /\ last.op \in RefreshOps
    /\ last.writes = 1
    /\ last.latest # None

\* C25 (as the specification states it): no call writes a whole access token
\* or refresh token to the console, whether it succeeds or fails; of a token
\* only the first characters are written.
C25_NoTokenInLog ==
    \A pr \in {proc[p] : p \in Procs} \cup {last} : pr.printed \cap ClearTokens = {}

\* A token of the row the call found cannot be decrypted with the key in use
Undecryptable(pr) ==
    /\ pr.seen # None
    /\ \/ decrypt(pr.seen[1].accessToken, env.key).threw
       \/ decrypt(pr.seen[1].refreshToken, env.key).threw

\* C26 (as the specification states it): when the stored ciphertext cannot
\* be decrypted, getValidAccessToken returns null to its caller - it does
\* not throw - and a refresh tick that finds such a row ends normally.
C26_DecryptFailureIsFailedLookup ==
    /\ (last.op = "getValidAccessToken" /\ Undecryptable(last)) => last.ret.kind = "null"
    /\ (last.op = "tick" /\ Undecryptable(last)) => last.ret.kind = "void"

\* C27: the step in which loginWithAuthCode returns a row has put that row
\* in the table beside the rows that were there, all of them as they were;
\* every other step of a loginWithAuthCode leaves the table as it was, and a
\* call that returns no row - its exchange failed, or its insert - returns
\* null.
C27_LoginAlwaysInserts ==
    [][/\ (last' # last /\ last'.op = "loginWithAuthCode")
            => IF last'.ret.kind = "row"
               THEN /\ store \subseteq store'
                    /\ Cardinality(store') = Cardinality(store) + 1
                    /\ store' \ store = {last'.ret.row[1]}
               ELSE store' = store /\ last'.ret.kind = "null"
       /\ (Steps(Client) /\ proc'[Client].op = "loginWithAuthCode") => store' = store
      ]_vars

\* A login has put its row beside the row that was there
C27_Witness ==
    /\ last.op = "loginWithAuthCode"
    /\ last.ret.kind = "row"
    /\ Cardinality(store) = 2
    /\ LegacyRow \in store

\* The minutes the specification gives a manual entry: those supplied, 60
\* when none are
ManualLifetime(expiresInMinutes) ==
    IF expiresInMinutes = NoNumber THEN DEFAULT_MANUAL_MINUTES ELSE expiresInMinutes

\* C28 (as the specification states it): the step in which setTokensManually
\* returns its row has made no provider call and has put in the table one
\* row, holding the pair given and expiring expiresInMinutes minutes after
\* the call, 60 minutes when expiresInMinutes was not supplied.
C28_ManualEntryInserts ==
    [][(last' # last /\ last'.op = "setTokensManually" /\ last'.ret.kind = "row")
          => LET given == last'.resp[1]
                 row == last'.ret.row[1]
             IN  /\ last'.calls = 0
                 /\ issued' = issued
                 /\ store' = store \cup {row}
                 /\ row \notin store
                 /\ decrypt(row.accessToken, env.key) = Returned(given.access_token[1])
                 /\ decrypt(row.refreshToken, env.key) = Returned(given.refresh_token[1])
                 /\ row.expiresAt = last'.t0 + ManualLifetime(given.expires_in) * MINUTE
      ]_vars

CliOps == {"cliLogin", "cliSetTokens", "cliRefresh", "cliStatus", "cliClear"}

\* Something failed under the command recorded in pr: a store operation, the
\* provider exchange, an exception caught, the configuration (client
\* credentials for a command that asks the provider, the key for a command
\* that encrypts or decrypts), or what the operator typed
CommandFailed(pr) ==
    \/ pr.dbFailed \/ pr.caught
    \/ pr.outcome \in {"network", "status"}
    \/ pr.op = "cliLogin" /\ (pr.sent = Some(<<>>) \/ ~HasClientCredentials(env))
    \/ pr.op = "cliLogin" /\ env.key # GoodKey
    \/ pr.op = "cliRefresh" /\ pr.seen # None
          /\ (~HasClientCredentials(env) \/ env.key # GoodKey)
    \/ pr.op = "cliSetTokens"
          /\ (env.key # GoodKey
              \/ TokensRefused(pr.resp[1].access_token[1], pr.resp[1].refresh_token[1]))

\* C29: cliLogin, cliSetTokens, cliRefresh, cliStatus and cliClear never
\* throw: each returns a result, and the result has success = false whenever
\* something failed under it - the provider, the store, the configuration,
\* the decryption, the input.
C29_CliNeverRaises ==
    last.op \in CliOps
        => /\ last.ret.kind \in {"success", "failure"}
           /\ CommandFailed(last) => last.ret.kind = "failure"

\* cliRefresh has caught the exception of a decrypt and answered with a failure
C29_Witness ==
    /\ last.op = "cliRefresh"
    /\ last.seen # None
    /\ decrypt(last.seen[1].refreshToken, env.key).threw
    /\ last.caught
    /\ last.ret.kind = "failure"

\* C30 (as the specification states it): the refresh token that a refresh
\* tick submits to the provider is the text that the refresh-token
\* ciphertext of the row it found decrypts to - what getValidAccessToken and
\* cliRefresh submit for that row - and never the ciphertext itself.
C30_TickSendsDecryptedToken ==
    \A pr \in {proc[p] : p \in Procs} \cup {last} :
        (pr.op \in {"tick", "getValidAccessToken", "cliRefresh"} /\ pr.sent # None)
            => /\ decrypt(pr.seen[1].refreshToken, env.key) = Returned(pr.sent[1])
               /\ pr.sent[1] # pr.seen[1].refreshToken

---------------------------------------------------------------------------
(* C31 *)

\* The row was Fresh when it was written: it expired more than the buffer
\* after its write
FreshWhenWritten(row) ==
    /\ row.expiresAt # NoDate
    /\ row.expiresAt - row.updatedAt > REFRESH_BUFFER_MINUTES * MINUTE

\* C31: starting from a single Fresh record, with the refresh task ticking
\* every 5 minutes, a provider that accepts the record's plaintext refresh
\* token, the configuration complete and no clear, the record never becomes
\* Expired: every tick of the task that finds the record finds it with
\* now < expiresAt.
C31_NeverExpires ==
    (/\ last.op = "tick"
     /\ last.seen # None
     /\ env.creds
     /\ env.key = GoodKey
     /\ Cardinality(store) = 1
     /\ FreshWhenWritten(last.seen[1])
     /\ decrypt(last.seen[1].refreshToken, env.key) = Returned(Token(RT, 0))
     /\ 0 \in provValid)
        => last.t0 < last.seen[1].expiresAt

---------------------------------------------------------------------------
(* C35 *)

\* C35: a health-check tick, periodic or run on demand, is read-only: the step
\* in which it runs makes no provider call and no write, leaves the table, the
\* provider and the calls in flight as they were, leaves the refresh task's
\* "had tokens on the previous tick" flag unchanged and writes no transition
\* notice, so the notices of the refresh ticks are those they would write
\* without it.
C35_HealthCheckReadOnly ==
    [][last'.op = "performHealthCheck"
          => (/\ last'.calls = 0
              /\ last'.writes = 0
              /\ UNCHANGED <<table, provider, proc>>
              /\ lastTokenCheckHadTokens' = lastTokenCheckHadTokens
              /\ log' \cap {"tokens_detected", "tokens_removed"} = {})]_vars

\* A health check that found the table empty after a refresh tick had found a
\* record: the flag still says so.
C35_Witness ==
    /\ last.op = "performHealthCheck"
    /\ ~last.dbFailed
    /\ last.seen = None
    /\ store = {}
    /\ lastTokenCheckHadTokens

---------------------------------------------------------------------------
(* C32 *)

\* The refresh token of row r is one the provider still honours
HoldsValidRefreshToken(r) ==
    \E n \in provValid : decrypt(r.refreshToken, env.key) = Returned(Token(RT, n))

\* C32: when a refresh tick and a getValidAccessToken or forced CLI refresh
\* overlap on the same record, the provider rotating the refresh token on
\* every use, then after both have finished - the key being configured and no
\* store operation failing - the record holds a refresh token the provider
\* honours, the one it issued last, never one it has invalidated.
C32_StoreHoldsLastIssued ==
    (/\ Alone
     /\ last.op \in {"getValidAccessToken", "cliRefresh"}
     /\ last.outcome = "ok"
     /\ ~last.dbFailed
     /\ env.key = GoodKey)
        => \A r \in store : r.id = last.seen[1].id => HoldsValidRefreshToken(r)

---------------------------------------------------------------------------
(* C33 *)

\* The call of the client as it stands after a step that took it past its
\* write
AfterWrite == IF proc'[Client].pc = "reread" THEN proc'[Client] ELSE last'

\* This step is the write of a refresh of the client, and the write succeeded
RefreshWrote ==
    /\ proc[Client].pc = "write"
    /\ Steps(Client)
    /\ AfterWrite.writes = proc[Client].writes + 1

\* C33: the write of a successful refresh inserts a record only when the store
\* is empty at the time of the write; otherwise it updates the record that
\* latest returned, in place: the number of records and that record's id are
\* unchanged, its updatedAt afterwards is >= its previous updatedAt, and every
\* other record is untouched.
C33_InsertOnlyWhenEmpty ==
    [][RefreshWrote
          => IF store = {} THEN Cardinality(store') = 1
             ELSE /\ Cardinality(store') = Cardinality(store)
                  /\ proc[Client].latest # None
                  /\ \E r \in store, u \in store' :
                        /\ r.id = proc[Client].latest[1]
                        /\ u.id = r.id
                        /\ u.updatedAt >= r.updatedAt
                        /\ store' \ {u} = store \ {r}]_vars

---------------------------------------------------------------------------
(* C34 *)

\* Row r holds the pair of `response`, under `key`
RowHoldsPair(r, response, key) ==
    /\ decrypt(r.accessToken, key) = Returned(response.access_token[1])
    /\ decrypt(r.refreshToken, key) = Returned(response.refresh_token[1])

\* C34: the record a successful refresh returns is the record that holds the
\* pair the provider just issued to it, and the token getValidAccessToken
\* returns after a refresh is the access token of that pair - however many
\* records the store holds and whichever of them latest returns.
C34_RefreshReturnsIssuedPair ==
    /\ (last.op = "refreshTokens" /\ last.ret.kind = "row" /\ env.key = GoodKey)
          => RowHoldsPair(last.ret.row[1], last.resp[1], env.key)
    /\ (last.op = "getValidAccessToken" /\ last.calls = 1 /\ last.ret.kind = "value")
          => last.ret.tok = last.resp[1].access_token[1]

====
